---------------------------- MODULE Spec2Model ----------------------------
(***************************************************************************)
(* A model of the blackjack simulation engine: Card, Deck/Shoe, Hand, the   *)
(* dealer and player strategies, the round loops of BlackjackSimulator and  *)
(* SidebetSimulator, and the phases of InteractiveSimulator.                *)
(*                                                                          *)
(* Shoe.cards is only ever written by code that ends in random.shuffle      *)
(* (build_and_shuffle, the continuous branch of return_to_discard) and is   *)
(* only ever read by pop(0).  Every order of the list is a possible result  *)
(* of random.shuffle, so the card pop(0) returns is any card of the list    *)
(* and the rest is again in an arbitrary order.  The list is therefore kept *)
(* as a bag (its contents), draw() removes any one of its cards, and the    *)
(* call of random.shuffle itself is recorded in last.shuffled.              *)
(* Shoe.discard_pile is only ever extended and then poured into cards right *)
(* before a shuffle; its order is never read, so it is kept as a bag too.   *)
(***************************************************************************)
EXTENDS Integers, Sequences, FiniteSets, Bags, TLC

VARIABLES
    sim,           \* class of the simulator object that runs
    config,        \* SimulationConfig
    shoe,          \* Shoe: num_decks, reshuffle_cutoff, continuous_shuffle, cards, discard_pile
    player_hands,  \* list of Hand (the round's player hands)
    dealer_hand,   \* Hand (the round's dealer hand)
    pc,            \* position of the running method, or current_phase between calls
    hand_num,      \* index of the round loop of run_simulation; len(hand_history)
    deal_pos,      \* number of cards dealt so far inside deal_initial_cards
    cur_player,    \* index (1-based) of the player hand play_hand is working on
    last,          \* the most recent Shoe call: its name and what it did
    results,       \* self.results, the statistics of the run
    returned,      \* the round results so far, in order: the tuples play_hand returned
    current_stats, \* self.current_stats of the interactive simulators: its house_edge
    current_phase  \* self.current_phase of the interactive simulators

vars == <<sim, config, shoe, player_hands, dealer_hand, pc, hand_num, deal_pos, cur_player, last,
          results, returned, current_stats, current_phase>>

---------------------------------------------------------------------------
(* Bounds of the model *)

\* num_hands: rounds played by run_simulation
MaxHands == 1
\* num_decks ranges over 0..MaxDecks
MaxDecks == 2
\* reshuffle_cutoff ranges over 0..MaxCutoff
MaxCutoff == 1
\* num_players ranges over 1..MaxPlayers
MaxPlayers == 2
\* longest hand built card by card in HandSpec
MaxHandLen == 4

\* update_statistics calls followed on one aggregator
MaxRounds == 3

---------------------------------------------------------------------------
(* Card *)

SUITS == <<"Hearts", "Diamonds", "Clubs", "Spades">>

RANKS == <<"2", "3", "4", "5", "6", "7", "8", "9", "10", "Jack", "Queen", "King", "Ace">>

\* The suits and ranks a Deck of the shoe is built from in this model: a
\* reduced deck (a 17-maker, a ten-valued card and the Ace), so that a shoe of
\* one or two decks runs low within a round.
DeckSuits == <<"Hearts">>

DeckRanks == <<"6", "King", "Ace">>

Card(suit, rank) == [suit |-> suit, rank |-> rank]

\* int(self.rank) for the numeric ranks
RankInt(rank) ==
    CASE rank = "2" -> 2 [] rank = "3" -> 3 [] rank = "4" -> 4 [] rank = "5" -> 5
      [] rank = "6" -> 6 [] rank = "7" -> 7 [] rank = "8" -> 8 [] rank = "9" -> 9
      [] rank = "10" -> 10

Card_get_value(card) ==
    IF card.rank = "Ace" THEN 11
    ELSE IF card.rank \in {"Jack", "Queen", "King"} THEN 10
    ELSE RankInt(card.rank)

---------------------------------------------------------------------------
(* Hand *)

\* Hand.__init__
Hand == [cards |-> <<>>, is_dealer_hand |-> FALSE]

add_card(hand, card) == [hand EXCEPT !.cards = Append(@, card)]

clear(hand) == [hand EXCEPT !.cards = <<>>]

\* the first loop without its "else": an Ace adds 11 and its card value again
RECURSIVE SumCardsNoElse(_, _)
SumCardsNoElse(cards, n) ==
    IF n = 0 THEN [total_value |-> 0, ace_count |-> 0]
    ELSE LET acc == SumCardsNoElse(cards, n - 1)
             card == cards[n]
         IN  IF card.rank = "Ace"
             THEN [total_value |-> acc.total_value + 11 + Card_get_value(card),
                   ace_count |-> acc.ace_count + 1]
             ELSE [total_value |-> acc.total_value + Card_get_value(card),
                   ace_count |-> acc.ace_count]

\* first loop of get_value: (total_value, ace_count) after the first n cards
RECURSIVE SumCards(_, _)
SumCards(cards, n) ==
    IF n = 0 THEN [total_value |-> 0, ace_count |-> 0]
    ELSE LET acc == SumCards(cards, n - 1)
             card == cards[n]
         IN  IF card.rank = "Ace"
             THEN [total_value |-> acc.total_value + 11, ace_count |-> acc.ace_count + 1]
             ELSE [total_value |-> acc.total_value + Card_get_value(card),
                   ace_count |-> acc.ace_count]

\* get_value with "if" for "while": at most one Ace is taken down to 1
AdjustAcesOnce(total_value, ace_count) ==
    IF total_value > 21 /\ ace_count > 0 THEN total_value - 10 ELSE total_value

\* second loop of get_value: while total_value > 21 and ace_count > 0
RECURSIVE AdjustAces(_, _)
AdjustAces(total_value, ace_count) ==
    IF total_value > 21 /\ ace_count > 0
    THEN AdjustAces(total_value - 10, ace_count - 1)
    ELSE total_value

get_value(hand) ==
    LET acc == SumCards(hand.cards, Len(hand.cards))
    IN  AdjustAces(acc.total_value, acc.ace_count)

\* is_blackjack without the test of the number of cards
is_blackjack_any_length(hand) == get_value(hand) = 21

is_blackjack(hand) == Len(hand.cards) = 2 /\ get_value(hand) = 21

is_bust(hand) == get_value(hand) > 21

\* sum(card.get_value() for card in self.cards if card.rank != "Ace")
RECURSIVE NonAceValue(_, _)
NonAceValue(cards, n) ==
    IF n = 0 THEN 0
    ELSE NonAceValue(cards, n - 1)
         + (IF cards[n].rank # "Ace" THEN Card_get_value(cards[n]) ELSE 0)

\* is_soft that stops at has_ace
is_soft_has_ace(hand) ==
    \E i \in DOMAIN hand.cards : hand.cards[i].rank = "Ace"

is_soft(hand) ==
    LET has_ace == \E i \in DOMAIN hand.cards : hand.cards[i].rank = "Ace"
        non_ace_value == NonAceValue(hand.cards, Len(hand.cards))
        ace_count == Cardinality({i \in DOMAIN hand.cards : hand.cards[i].rank = "Ace"})
        test_value == non_ace_value + ace_count
    IN  IF ~has_ace THEN FALSE ELSE test_value + 10 <= 21

\* Python's None where a Card is expected
None == [suit |-> "None", rank |-> "None"]

get_dealer_up_card(hand) ==
    IF hand.is_dealer_hand /\ hand.cards # <<>> THEN hand.cards[1] ELSE None

---------------------------------------------------------------------------
(* Strategies *)

\* a dealer that hits every soft 17, whatever hit_soft_17 says
DealerStrategy_always_hits_soft_17(hit_soft_17, player_hand) ==
    LET hand_value == get_value(player_hand)
    IN  hand_value < 17 \/ (hand_value = 17 /\ is_soft(player_hand))

\* a dealer that stands on 16
DealerStrategy_stands_on_16(hit_soft_17, player_hand) ==
    LET hand_value == get_value(player_hand)
    IN  IF hand_value < 16 THEN TRUE
        ELSE IF hand_value = 17 /\ is_soft(player_hand) /\ hit_soft_17 THEN TRUE
        ELSE FALSE

\* DealerStrategy(hit_soft_17).should_hit(player_hand); dealer_up_card is not read
DealerStrategy_should_hit(hit_soft_17, player_hand) ==
    LET hand_value == get_value(player_hand)
    IN  IF hand_value < 17 THEN TRUE
        ELSE IF hand_value = 17 /\ is_soft(player_hand) /\ hit_soft_17 THEN TRUE
        ELSE FALSE

\* Keys of hit_rules: (player_total, dealer_value) with player_total the integer
\* total of a hard hand or the string f"soft {total}" of a soft one.  An integer
\* and a string are never equal in Python, so the two kinds are kept apart by a tag.
HardKey(hand_value, dealer_value) == <<"hard", hand_value, dealer_value>>

SoftKey(hand_value, dealer_value) == <<"soft", hand_value, dealer_value>>

\* a player that hits below the threshold before it looks at hit_rules
PlayerStrategy_threshold_first(strategy, player_hand, dealer_up_card) ==
    LET hand_value == get_value(player_hand)
        dealer_value == Card_get_value(dealer_up_card)
        key == IF is_soft(player_hand) THEN SoftKey(hand_value, dealer_value)
                                       ELSE HardKey(hand_value, dealer_value)
    IN  IF hand_value < strategy.stand_threshold THEN TRUE
        ELSE IF dealer_up_card # None /\ key \in DOMAIN strategy.hit_rules
             THEN strategy.hit_rules[key]
        ELSE hand_value = 17 /\ is_soft(player_hand) /\ strategy.hit_soft_17

\* a player whose soft hands also match the rules keyed on the integer total
PlayerStrategy_untagged_keys(strategy, player_hand, dealer_up_card) ==
    LET hand_value == get_value(player_hand)
        dealer_value == Card_get_value(dealer_up_card)
        default == \/ hand_value < strategy.stand_threshold
                   \/ hand_value = 17 /\ is_soft(player_hand) /\ strategy.hit_soft_17
    IN  IF dealer_up_card # None /\ HardKey(hand_value, dealer_value) \in DOMAIN strategy.hit_rules
        THEN strategy.hit_rules[HardKey(hand_value, dealer_value)]
        ELSE IF dealer_up_card # None /\ is_soft(player_hand)
                /\ SoftKey(hand_value, dealer_value) \in DOMAIN strategy.hit_rules
        THEN strategy.hit_rules[SoftKey(hand_value, dealer_value)]
        ELSE default

\* a player whose default rule has no soft-17 clause
PlayerStrategy_no_soft_17(strategy, player_hand, dealer_up_card) ==
    LET hand_value == get_value(player_hand)
        dealer_value == Card_get_value(dealer_up_card)
        key == IF is_soft(player_hand) THEN SoftKey(hand_value, dealer_value)
                                       ELSE HardKey(hand_value, dealer_value)
    IN  IF dealer_up_card # None /\ key \in DOMAIN strategy.hit_rules
        THEN strategy.hit_rules[key]
        ELSE hand_value < strategy.stand_threshold

\* PlayerStrategy(stand_threshold, hit_soft_17, hit_rules).should_hit(player_hand, dealer_up_card)
PlayerStrategy_should_hit(strategy, player_hand, dealer_up_card) ==
    LET hand_value == get_value(player_hand)
        dealer_value == Card_get_value(dealer_up_card)
        default == IF hand_value < strategy.stand_threshold THEN TRUE
                   ELSE IF hand_value = 17 /\ is_soft(player_hand) /\ strategy.hit_soft_17
                        THEN TRUE
                   ELSE FALSE
    IN  IF dealer_up_card # None /\ DOMAIN strategy.hit_rules # {}
        THEN IF ~is_soft(player_hand)
                /\ HardKey(hand_value, dealer_value) \in DOMAIN strategy.hit_rules
             THEN strategy.hit_rules[HardKey(hand_value, dealer_value)]
             ELSE IF is_soft(player_hand)
                     /\ SoftKey(hand_value, dealer_value) \in DOMAIN strategy.hit_rules
             THEN strategy.hit_rules[SoftKey(hand_value, dealer_value)]
             ELSE default
        ELSE default

---------------------------------------------------------------------------
(* Deck and Shoe *)

Range(s) == {s[i] : i \in DOMAIN s}

\* the contents of a list
SeqToBag(s) == [c \in Range(s) |-> Cardinality({i \in DOMAIN s : s[i] = c})]

\* Deck._build: [Card(suit, rank) for suit in SUITS for rank in RANKS]
Deck_build ==
    [k \in 1..(Len(DeckSuits) * Len(DeckRanks)) |->
        Card(DeckSuits[((k - 1) \div Len(DeckRanks)) + 1],
             DeckRanks[((k - 1) % Len(DeckRanks)) + 1])]

\* cards of one deck (52 with the full SUITS and RANKS)
DeckSize == Len(Deck_build)

\* for _ in range(num_decks): self.cards.extend(Deck().cards)
RECURSIVE Decks(_)
Decks(num_decks) ==
    IF num_decks <= 0 THEN <<>> ELSE Decks(num_decks - 1) \o Deck_build

\* len(self.cards)
Shoe_len(sh) == BagCardinality(sh.cards)

build_and_shuffle(sh) ==
    [sh EXCEPT !.cards = SeqToBag(Decks(sh.num_decks)) (+) sh.discard_pile,
               !.discard_pile = EmptyBag]

\* Shoe.__init__
Shoe(num_decks, reshuffle_cutoff) ==
    build_and_shuffle([num_decks |-> num_decks,
                       reshuffle_cutoff |-> reshuffle_cutoff,
                       cards |-> EmptyBag,
                       discard_pile |-> EmptyBag,
                       continuous_shuffle |-> (reshuffle_cutoff = 0)])

\* draw() with the cutoff compared by < instead of <=
draw_reshuffles_strict(sh) ==
    Shoe_len(sh) < sh.reshuffle_cutoff /\ ~sh.continuous_shuffle

\* draw() without the test of continuous_shuffle
draw_reshuffles_any_mode(sh) ==
    Shoe_len(sh) <= sh.reshuffle_cutoff

\* the condition of draw() under which it rebuilds the shoe first
draw_reshuffles(sh) ==
    Shoe_len(sh) <= sh.reshuffle_cutoff /\ ~sh.continuous_shuffle

\* draw(): what happens once the reshuffle, if any, is done: the shoe it leaves,
\* the card it returns (any card of the shuffled list), or IndexError
draw_pop(sh, shuffled) ==
    IF Shoe_len(sh) = 0
    THEN {[shoe |-> sh, card |-> None, raised |-> TRUE, shuffled |-> shuffled]}
    ELSE {[shoe |-> [sh EXCEPT !.cards = @ (-) SetToBag({c})],
           card |-> c, raised |-> FALSE, shuffled |-> shuffled] : c \in BagToSet(sh.cards)}

\* draw() that rebuilds an empty shoe instead of raising
draw_refills_empty(sh) ==
    LET s1 == IF draw_reshuffles(sh) THEN build_and_shuffle(sh) ELSE sh
    IN  IF Shoe_len(s1) = 0
        THEN draw_pop(build_and_shuffle(s1), TRUE)
        ELSE draw_pop(s1, draw_reshuffles(sh))

\* Shoe.draw: the set of its possible outcomes
draw(sh) ==
    IF draw_reshuffles(sh)
    THEN draw_pop(build_and_shuffle(sh), TRUE)
    ELSE draw_pop(sh, FALSE)

\* return_to_discard whose continuous branch does not empty the discard pile
return_to_discard_keeps_pile(sh, cards) ==
    LET discard_pile == sh.discard_pile (+) SeqToBag(cards)
    IN  IF sh.continuous_shuffle
        THEN [shoe |-> [sh EXCEPT !.cards = @ (+) discard_pile,
                                  !.discard_pile = discard_pile],
              shuffled |-> TRUE]
        ELSE [shoe |-> [sh EXCEPT !.discard_pile = discard_pile],
              shuffled |-> FALSE]

\* Shoe.return_to_discard: the shoe it leaves and whether it shuffled
return_to_discard(sh, cards) ==
    LET discard_pile == sh.discard_pile (+) SeqToBag(cards)
    IN  IF sh.continuous_shuffle
        THEN [shoe |-> [sh EXCEPT !.cards = @ (+) discard_pile, !.discard_pile = EmptyBag],
              shuffled |-> TRUE]
        ELSE [shoe |-> [sh EXCEPT !.discard_pile = discard_pile],
              shuffled |-> FALSE]

---------------------------------------------------------------------------
(* Configuration and setup *)

Simulators == {"BlackjackSimulator", "SidebetSimulator", "InteractiveSimulator"}

\* the classes driven call by call: InteractiveSimulator(BlackjackSimulator) and
\* InteractiveSidebetSimulator(SidebetSimulator)
InteractiveSimulators == {"InteractiveSimulator", "InteractiveSidebetSimulator"}

\* player_hit_rules tables the runs are configured with ({} is the default)
HitRuleTables == {<<>>}

\* Amounts of money are kept exact: commission_pct is a whole number of per
\* cent, blackjack_payout a whole number of hundredths of the unit wager, and
\* every amount won or lost a whole number of Unit-ths of the unit wager.
Unit == 100 * 100

\* commission_pct=5.0 of SimulationConfig.__init__
DefaultCommissionPct == 5

\* blackjack_payout=1.0 of SimulationConfig.__init__, in hundredths
DefaultBlackjackPayout == 100

\* The configurations the runs are started with: no deck or MaxDecks decks, the
\* continuous shoe or the cutoff MaxCutoff.  The soft-17 flags and the payout
\* parameters keep their defaults, and tables of more than one player hand are
\* run on the continuous shoe, which keeps the number of runs small.
Configs ==
    {c \in [num_hands : {MaxHands},
            num_decks : {0, MaxDecks},
            reshuffle_cutoff : {0, MaxCutoff},
            num_players : 1..MaxPlayers,
            player_hit_soft_17 : {FALSE},
            dealer_hit_soft_17 : {FALSE},
            hit_against_blackjack : BOOLEAN,
            player_hit_rules : HitRuleTables,
            commission_pct : {DefaultCommissionPct},
            blackjack_payout : {DefaultBlackjackPayout},
            commission_on_blackjack : {TRUE}] :
        c.num_players > 1 => c.reshuffle_cutoff = 0}

\* BlackjackSimulator.setup: the strategies it builds from the configuration
dealer_strategy == [hit_soft_17 |-> config.dealer_hit_soft_17]

player_strategy ==
    [stand_threshold |-> 17,
     hit_soft_17 |-> config.player_hit_soft_17,
     hit_rules |-> config.player_hit_rules]

\* SimulationConfig.get_commission_multiplier, in hundredths
get_commission_multiplier(c) == 100 - c.commission_pct

\* A quotient is kept exact, as the fraction num/den, den > 0, of Unit-ths.
Frac(n, d) == [num |-> n, den |-> d]

\* no value: the key is not in the dictionary, or holds Python's None
Absent == Frac(0, 0)

\* BlackjackSimulator.setup: self.results; player_blackjacks and
\* dealer_blackjacks are the keys of SidebetSimulator.setup that play_hand
\* writes; house_edge is the key run_simulation adds when the loop has ended
NewResults ==
    [player_wins |-> 0, dealer_wins |-> 0, pushes |-> 0, blackjacks |-> 0,
     player_busts |-> 0, dealer_busts |-> 0, net_win_amount |-> 0, total_bets |-> 0,
     outcome_matrix |-> EmptyBag, outcome_details |-> EmptyBag,
     player_blackjacks |-> 0, dealer_blackjacks |-> 0,
     house_edge |-> Absent]

\* Dictionary keys that are integers in one place and strings in another
\* ('bust', '12+') are kept as strings throughout, an integer by its numeral.
IntKey(n) == ToString(n)

\* SidebetSimulator.setup: the keys it adds to self.results
NewSidebetResults ==
    [total_pushes |-> 0,
     pushes_by_value |-> [k \in {IntKey(v) : v \in 17..21} \cup {"bust", "blackjack"} |-> 0],
     pushes_by_card_count |-> [k \in {IntKey(n) : n \in 4..11} \cup {"12+"} |-> 0],
     pushes_detail_matrix |-> EmptyBag,
     sidebet_wins |-> 0,
     sidebet_payouts |-> 0,
     sidebet_edge |-> Frac(0, 1)]

\* the simulators that add the side bet
SidebetSimulators == {"SidebetSimulator", "InteractiveSidebetSimulator"}

\* self.results after setup()
SetupResults ==
    IF sim \in SidebetSimulators THEN NewResults @@ NewSidebetResults ELSE NewResults

\* InteractiveSimulator.__init__: self.current_stats, 'house_edge': 0.0
NewCurrentStats ==
    IF sim = "InteractiveSimulator"
    THEN [house_edge |-> Frac(0, 1)]
    ELSE [house_edge |-> Absent]

\* __init__ of the interactive simulators: self.current_phase = "init"; the
\* other simulators have no such attribute
NewPhase == IF sim \in InteractiveSimulators THEN "init" ELSE "None"

\* BlackjackSimulator.run_simulation, lines 264-267: the final house edge,
\* -net_win_amount / total_bets
run_simulation_house_edge(res) ==
    IF res.total_bets > 0
    THEN Frac(0 - res.net_win_amount, res.total_bets)
    ELSE Frac(0, 1)

\* InteractiveSimulator.update_current_stats:
\* -net_win_amount / total_bets * 100
update_current_stats(res) ==
    [house_edge |-> IF res.total_bets > 0
                    THEN Frac((0 - res.net_win_amount) * 100, res.total_bets)
                    ELSE Frac(0, 1)]

\* no Shoe call made yet
NoCall == [op |-> "none", shuffled |-> FALSE, raised |-> FALSE, cards |-> <<>>]

DrawCall(r) == [op |-> "draw", shuffled |-> r.shuffled, raised |-> r.raised, cards |-> <<>>]

\* The state after self.setup(): at the head of the loop of run_simulation, or,
\* for InteractiveSimulator, after the first start_new_hand() of the session.
Init ==
    /\ sim \in Simulators
    /\ config \in Configs
    \* only SidebetSimulator reads hit_against_blackjack
    /\ sim # "SidebetSimulator" => ~config.hit_against_blackjack
    /\ shoe = Shoe(config.num_decks, config.reshuffle_cutoff)
    /\ IF sim = "InteractiveSimulator"
       THEN /\ player_hands = [i \in 1..config.num_players |-> Hand]
            /\ dealer_hand = [Hand EXCEPT !.is_dealer_hand = TRUE]
            /\ pc = "init"
       ELSE /\ player_hands = <<>>
            /\ dealer_hand = Hand
            /\ pc = "round_start"
    /\ hand_num = 0
    /\ deal_pos = 0
    /\ cur_player = 1
    /\ last = NoCall
    /\ results = SetupResults
    /\ returned = <<>>
    /\ current_stats = NewCurrentStats
    /\ current_phase = NewPhase

---------------------------------------------------------------------------
(* run_simulation *)

\* cards held by the hands of the round being played
RECURSIVE HandsCards(_, _)
HandsCards(hands, n) ==
    IF n = 0 THEN <<>> ELSE HandsCards(hands, n - 1) \o hands[n].cards

\* used_cards of BlackjackSimulator.run_simulation: the player hands' cards in
\* seat order, then the dealer's
used_cards == HandsCards(player_hands, Len(player_hands)) \o dealer_hand.cards

\* BlackjackSimulator.run_simulation, head of an iteration: fresh hands
BlackjackRoundStart ==
    /\ sim = "BlackjackSimulator"
    /\ pc = "round_start"
    /\ player_hands' = [i \in 1..config.num_players |-> Hand]
    /\ dealer_hand' = [Hand EXCEPT !.is_dealer_hand = TRUE]
    /\ pc' = "deal"
    /\ deal_pos' = 0
    /\ cur_player' = 1
    /\ last' = NoCall
    /\ UNCHANGED <<sim, config, shoe, hand_num, results, returned, current_stats, current_phase>>

\* SidebetSimulator.run_simulation, head of an iteration: the explicit
\* reshuffle below the cutoff, then one fresh player hand and the dealer's
SidebetRoundStart ==
    /\ sim = "SidebetSimulator"
    /\ pc = "round_start"
    /\ IF config.reshuffle_cutoff > 0 /\ Shoe_len(shoe) < config.reshuffle_cutoff
       THEN /\ shoe' = build_and_shuffle(shoe)
            /\ last' = [op |-> "build_and_shuffle", shuffled |-> TRUE,
                        raised |-> FALSE, cards |-> <<>>]
       ELSE /\ shoe' = shoe
            /\ last' = NoCall
    /\ player_hands' = <<Hand>>
    /\ dealer_hand' = [Hand EXCEPT !.is_dealer_hand = TRUE]
    /\ pc' = "deal"
    /\ deal_pos' = 0
    /\ cur_player' = 1
    /\ UNCHANGED <<sim, config, hand_num, results, returned, current_stats, current_phase>>

\* for ... in range(self.config.num_hands): where the loop goes once iteration
\* hand_num has ended
LoopNext == IF hand_num + 1 < config.num_hands THEN "round_start" ELSE "done"

\* a deal that serves both cards of every player before the dealer's two
DealTarget_dealer_last(pos, n) ==
    IF pos < n THEN pos + 1
    ELSE IF pos < 2 * n THEN pos - n + 1
    ELSE 0

\* deal_initial_cards: the hand that receives the card drawn at position pos
\* (0-based) for n player hands; 0 is the dealer
DealTarget(pos, n) ==
    IF pos < n THEN pos + 1
    ELSE IF pos = n THEN 0
    ELSE IF pos <= 2 * n THEN pos - n
    ELSE 0

\* InteractiveSimulator.deal_cards, after deal_initial_cards: the hand is
\* completed at once when any hand is a blackjack
AfterDeal(hands, dealer) ==
    IF sim \notin InteractiveSimulators THEN "play_hand"
    ELSE IF (\E i \in DOMAIN hands : is_blackjack(hands[i])) \/ is_blackjack(dealer)
         THEN "play_hand"
         ELSE "player_turn"

\* deal_initial_cards, one self.shoe.draw() at a time; InteractiveSimulator
\* enters it from deal_cards in phase "init", for the MaxHands hands of a session
DealCard ==
    /\ pc = "deal" \/ (pc = "init" /\ sim \in InteractiveSimulators /\ hand_num < MaxHands)
    /\ \E r \in draw(shoe) :
         /\ shoe' = r.shoe
         /\ last' = DrawCall(r)
         /\ IF r.raised
            THEN /\ pc' = "IndexError"
                 /\ UNCHANGED <<player_hands, dealer_hand, deal_pos, current_phase>>
            ELSE LET n == Len(player_hands)
                     target == DealTarget(deal_pos, n)
                 IN  /\ IF target = 0
                        THEN /\ dealer_hand' = [add_card(dealer_hand, r.card)
                                                  EXCEPT !.is_dealer_hand = TRUE]
                             /\ UNCHANGED player_hands
                        ELSE /\ player_hands' =
                                  [player_hands EXCEPT ![target] = add_card(@, r.card)]
                             /\ UNCHANGED dealer_hand
                     /\ deal_pos' = deal_pos + 1
                     /\ pc' = IF deal_pos + 1 = 2 * (n + 1)
                              THEN AfterDeal(player_hands', dealer_hand')
                              ELSE "deal"
                     \* deal_cards: self.current_phase = "player_turn"
                     /\ current_phase' =
                          IF deal_pos + 1 = 2 * (n + 1) /\ sim \in InteractiveSimulators
                          THEN "player_turn" ELSE current_phase
    /\ UNCHANGED <<sim, config, hand_num, cur_player, results, returned, current_stats>>

---------------------------------------------------------------------------
(* play_hand *)

\* the player hand play_hand was called with
player_hand == player_hands[cur_player]

\* play_hand returns at once on its blackjack checks.  BlackjackSimulator: when
\* either hand is a blackjack.  SidebetSimulator: the same, unless only the
\* dealer has it and hit_against_blackjack lets the player draw first.
ReturnsOnBlackjack ==
    LET player_blackjack == is_blackjack(player_hand)
        dealer_blackjack == is_blackjack(dealer_hand)
    IN  IF sim \in SidebetSimulators
        THEN \/ player_blackjack /\ dealer_blackjack
             \/ dealer_blackjack /\ ~player_blackjack /\ ~config.hit_against_blackjack
             \/ player_blackjack /\ ~dealer_blackjack
        ELSE player_blackjack \/ dealer_blackjack

\* SidebetSimulator.play_hand, lines 65-72: the player draws against the
\* dealer's blackjack and play_hand returns without a dealer loop
HitsAgainstBlackjack ==
    /\ sim \in SidebetSimulators
    /\ is_blackjack(dealer_hand)
    /\ ~is_blackjack(player_hand)
    /\ config.hit_against_blackjack

\* the tuple play_hand returns: (result, player_final_value, dealer_final_value)
Return(result, player_value, dealer_value) ==
    [result |-> result, player_value |-> player_value, dealer_value |-> dealer_value]

\* a return on a blackjack that labels the dealer's blackjack "dealer_win"
BlackjackReturn_dealer_blackjack_dealer_win(ph, dh) ==
    IF is_blackjack(ph) /\ is_blackjack(dh) THEN Return("push", 21, 21)
    ELSE IF is_blackjack(ph) THEN Return("dealer_win", 21, get_value(dh))
    ELSE Return("dealer_win", get_value(ph), 21)

\* BlackjackSimulator.play_hand, lines 96-114: the return on a blackjack
BlackjackReturn(ph, dh) ==
    IF is_blackjack(ph) /\ is_blackjack(dh) THEN Return("push", 21, 21)
    ELSE IF is_blackjack(ph) THEN Return("dealer_win", 21, get_value(dh))
    ELSE Return("player_win_blackjack", get_value(ph), 21)

\* a final comparison that names the side whose hand won
FinalReturn_names_winning_side(ph, dh) ==
    LET player_value == get_value(ph)
        dealer_value == get_value(dh)
        result == IF is_bust(ph) /\ is_bust(dh) THEN "push"
                  ELSE IF is_bust(ph) THEN "dealer_win"
                  ELSE IF is_bust(dh) THEN "player_win"
                  ELSE IF player_value > dealer_value THEN "player_win"
                  ELSE IF dealer_value > player_value THEN "dealer_win"
                  ELSE "push"
    IN  Return(result, player_value, dealer_value)

\* BlackjackSimulator.play_hand, lines 133-155: the final comparison
FinalReturn(ph, dh) ==
    LET player_value == get_value(ph)
        player_busted == is_bust(ph)
        dealer_value == get_value(dh)
        dealer_busted == is_bust(dh)
        result == IF player_busted /\ dealer_busted THEN "push"
                  ELSE IF player_busted THEN "player_win"
                  ELSE IF dealer_busted THEN "dealer_win"
                  ELSE IF player_value > dealer_value THEN "dealer_win"
                  ELSE IF dealer_value > player_value THEN "player_win"
                  ELSE "push"
    IN  Return(result, player_value, dealer_value)

\* SidebetSimulator.play_hand, lines 60-78: the return on a blackjack
\* (without or after the player's draws against the dealer's blackjack)
SidebetBlackjackReturn(ph, dh) ==
    IF is_blackjack(ph) /\ is_blackjack(dh) THEN Return("push", 21, 21)
    ELSE IF is_blackjack(dh) THEN Return("dealer_win", get_value(ph), 21)
    ELSE Return("player_win", 21, get_value(dh))

\* SidebetSimulator.play_hand, lines 87-109: the final comparison
SidebetFinalReturn(ph, dh) ==
    LET player_value == get_value(ph)
        player_busted == is_bust(ph)
        dealer_value == get_value(dh)
        dealer_busted == is_bust(dh)
        result == IF player_busted /\ dealer_busted THEN "push"
                  ELSE IF player_busted THEN "dealer_win"
                  ELSE IF dealer_busted THEN "player_win"
                  ELSE IF player_value > dealer_value THEN "player_win"
                  ELSE IF dealer_value > player_value THEN "dealer_win"
                  ELSE "push"
    IN  Return(result, player_value, dealer_value)

\* play_hand's counters of blackjacks.  BlackjackSimulator counts one blackjack
\* on each of its three early returns; SidebetSimulator counts each side's at
\* the top of play_hand.
TrackBlackjacks(res, ph, dh) ==
    IF sim \in SidebetSimulators
    THEN [res EXCEPT !.player_blackjacks = @ + (IF is_blackjack(ph) THEN 1 ELSE 0),
                     !.dealer_blackjacks = @ + (IF is_blackjack(dh) THEN 1 ELSE 0)]
    ELSE IF is_blackjack(ph) \/ is_blackjack(dh)
         THEN [res EXCEPT !.blackjacks = @ + 1]
         ELSE res

\* Python's min
Min(a, b) == IF a < b THEN a ELSE b

\* an aggregator that takes the commission from every win, blackjack or not
update_statistics_commission_always(res, ret) ==
    LET win_amount ==
            IF ret.result = "player_win_blackjack"
            THEN config.blackjack_payout * get_commission_multiplier(config)
            ELSE get_commission_multiplier(config) * 100
        counted ==
            IF ret.result = "player_win" \/ ret.result = "player_win_blackjack"
            THEN [res EXCEPT !.player_wins = @ + 1, !.net_win_amount = @ + win_amount]
            ELSE IF ret.result = "dealer_win"
            THEN [res EXCEPT !.dealer_wins = @ + 1, !.net_win_amount = @ - Unit]
            ELSE [res EXCEPT !.pushes = @ + 1]
    IN  [counted EXCEPT
            !.player_busts = @ + (IF ret.player_value > 21 THEN 1 ELSE 0),
            !.dealer_busts = @ + (IF ret.dealer_value > 21 THEN 1 ELSE 0),
            !.outcome_matrix =
                @ (+) SetToBag({<<Min(ret.player_value, 30), Min(ret.dealer_value, 30)>>}),
            !.outcome_details =
                @ (+) SetToBag({<<Min(ret.player_value, 30), Min(ret.dealer_value, 30),
                                 IF ret.result = "player_win_blackjack"
                                 THEN "player_win" ELSE ret.result>>}),
            !.total_bets = @ + 1]

\* an aggregator that counts a bust only for the side that loses the round
update_statistics_busts_of_losers(res, ret) ==
    LET counted ==
            IF ret.result = "player_win" \/ ret.result = "player_win_blackjack"
            THEN [res EXCEPT !.player_wins = @ + 1]
            ELSE IF ret.result = "dealer_win"
            THEN [res EXCEPT !.dealer_wins = @ + 1]
            ELSE [res EXCEPT !.pushes = @ + 1]
    IN  [counted EXCEPT
            !.player_busts =
                @ + (IF ret.player_value > 21 /\ ret.result = "dealer_win" THEN 1 ELSE 0),
            !.dealer_busts =
                @ + (IF ret.dealer_value > 21 /\ ret.result = "player_win" THEN 1 ELSE 0),
            !.outcome_matrix =
                @ (+) SetToBag({<<Min(ret.player_value, 30), Min(ret.dealer_value, 30)>>}),
            !.outcome_details =
                @ (+) SetToBag({<<Min(ret.player_value, 30), Min(ret.dealer_value, 30),
                                 IF ret.result = "player_win_blackjack"
                                 THEN "player_win" ELSE ret.result>>}),
            !.total_bets = @ + 1]

\* an aggregator that keys the matrices by the final values as they are
update_statistics_unclamped(res, ret) ==
    LET counted ==
            IF ret.result = "player_win" \/ ret.result = "player_win_blackjack"
            THEN [res EXCEPT !.player_wins = @ + 1]
            ELSE IF ret.result = "dealer_win"
            THEN [res EXCEPT !.dealer_wins = @ + 1]
            ELSE [res EXCEPT !.pushes = @ + 1]
    IN  [counted EXCEPT
            !.outcome_matrix = @ (+) SetToBag({<<ret.player_value, ret.dealer_value>>}),
            !.outcome_details =
                @ (+) SetToBag({<<ret.player_value, ret.dealer_value,
                                 IF ret.result = "player_win_blackjack"
                                 THEN "player_win" ELSE ret.result>>}),
            !.total_bets = @ + 1]

\* BlackjackSimulator.update_statistics(result, player_value, dealer_value)
update_statistics(res, ret) ==
    LET win_amount ==
            IF ret.result = "player_win_blackjack"
            THEN IF config.commission_on_blackjack
                 THEN config.blackjack_payout * get_commission_multiplier(config)
                 ELSE config.blackjack_payout * 100
            ELSE get_commission_multiplier(config) * 100
        counted ==
            IF ret.result = "player_win" \/ ret.result = "player_win_blackjack"
            THEN [res EXCEPT !.player_wins = @ + 1, !.net_win_amount = @ + win_amount]
            ELSE IF ret.result = "dealer_win"
            THEN [res EXCEPT !.dealer_wins = @ + 1, !.net_win_amount = @ - Unit]
            ELSE [res EXCEPT !.pushes = @ + 1]
        player_key == Min(ret.player_value, 30)
        dealer_key == Min(ret.dealer_value, 30)
        result_for_storage ==
            IF ret.result = "player_win_blackjack" THEN "player_win" ELSE ret.result
    IN  [counted EXCEPT
            !.player_busts = @ + (IF ret.player_value > 21 THEN 1 ELSE 0),
            !.dealer_busts = @ + (IF ret.dealer_value > 21 THEN 1 ELSE 0),
            !.outcome_matrix = @ (+) SetToBag({<<player_key, dealer_key>>}),
            !.outcome_details =
                @ (+) SetToBag({<<player_key, dealer_key, result_for_storage>>}),
            !.total_bets = @ + 1]

\* a categorisation that lists the totals 18 to 21 only
value_type_from_18(ret, ph, dh) ==
    IF ret.player_value > 21 THEN "bust"
    ELSE IF is_blackjack(ph) /\ is_blackjack(dh) THEN "blackjack"
    ELSE IF ret.player_value \in 18..21 THEN IntKey(ret.player_value)
    ELSE "None"

\* SidebetSimulator.update_statistics, lines 128-146: value_type of a push
value_type(ret, ph, dh) ==
    IF ret.player_value > 21 THEN "bust"
    ELSE IF is_blackjack(ph) /\ is_blackjack(dh) THEN "blackjack"
    ELSE IF ret.player_value = 21
         THEN IF is_blackjack(ph) \/ is_blackjack(dh) THEN "21_with_bj" ELSE IntKey(21)
    ELSE IF IntKey(ret.player_value) \in DOMAIN NewSidebetResults.pushes_by_value
         THEN IntKey(ret.player_value)
    ELSE "None"

\* SidebetSimulator.update_statistics, lines 149-150: card_count_key of a push
card_count_key(ph, dh) ==
    LET total_cards == Len(ph.cards) + Len(dh.cards)
    IN  IF total_cards >= 12 THEN "12+" ELSE IntKey(total_cards)

\* what follows the return of play_hand.
\* BlackjackSimulator.run_simulation: the next player hand, or return_to_discard
\* after the last.
\* SidebetSimulator.run_simulation: update_statistics passes five arguments to
\* BlackjackSimulator.update_statistics, which takes three: TypeError.
\* InteractiveSimulator.complete_hand: the hand is recorded in hand_history and
\* the phase is "result".  InteractiveSidebetSimulator.complete_hand calls the
\* update_statistics of SidebetSimulator with five arguments, which raises the
\* same TypeError before hand_history and current_phase are touched.
AfterPlayHand(ret, res) ==
    /\ returned' = Append(returned, ret)
    /\ IF sim \in SidebetSimulators
       THEN /\ results' = res
            /\ current_stats' = current_stats
            /\ current_phase' = current_phase
            /\ hand_num' = hand_num
            /\ pc' = "TypeError"
            /\ cur_player' = cur_player
       ELSE IF sim = "InteractiveSimulator"
       THEN /\ results' = update_statistics(res, ret)
            /\ current_stats' = update_current_stats(results')
            /\ current_phase' = "result"
            /\ hand_num' = hand_num + 1
            /\ pc' = "result"
            /\ cur_player' = cur_player
       ELSE /\ results' = update_statistics(res, ret)
            /\ current_stats' = current_stats
            /\ current_phase' = current_phase
            /\ hand_num' = hand_num
            /\ IF cur_player < Len(player_hands)
               THEN /\ cur_player' = cur_player + 1
                    /\ pc' = "play_hand"
               ELSE /\ cur_player' = cur_player
                    /\ pc' = "return"

PlayHandBlackjack ==
    /\ pc = "play_hand"
    /\ ReturnsOnBlackjack
    /\ AfterPlayHand(IF sim \in SidebetSimulators
                     THEN SidebetBlackjackReturn(player_hand, dealer_hand)
                     ELSE BlackjackReturn(player_hand, dealer_hand),
                     TrackBlackjacks(results, player_hand, dealer_hand))
    /\ last' = NoCall
    /\ UNCHANGED <<sim, config, shoe, player_hands, dealer_hand, deal_pos>>

PlayHandBegin ==
    /\ pc = "play_hand"
    /\ ~ReturnsOnBlackjack
    /\ pc' = IF HitsAgainstBlackjack THEN "player_loop_bj" ELSE "player_loop"
    /\ results' = TrackBlackjacks(results, player_hand, dealer_hand)
    /\ last' = NoCall
    /\ UNCHANGED <<sim, config, shoe, player_hands, dealer_hand, hand_num, deal_pos, cur_player,
                   returned, current_stats, current_phase>>

\* while self.player_strategy.should_hit(player_hand, dealer_up_card):
\*     player_hand.add_card(self.shoe.draw())
PlayerHit ==
    /\ pc \in {"player_loop", "player_loop_bj"}
    /\ PlayerStrategy_should_hit(player_strategy, player_hand, get_dealer_up_card(dealer_hand))
    /\ \E r \in draw(shoe) :
         /\ shoe' = r.shoe
         /\ last' = DrawCall(r)
         /\ IF r.raised
            THEN /\ pc' = "IndexError"
                 /\ UNCHANGED player_hands
            ELSE /\ pc' = pc
                 /\ player_hands' = [player_hands EXCEPT ![cur_player] = add_card(@, r.card)]
    /\ UNCHANGED <<sim, config, dealer_hand, hand_num, deal_pos, cur_player, results, returned, current_stats, current_phase>>

\* the player's loop ends; the dealer's loop is next
PlayerStand ==
    /\ pc = "player_loop"
    /\ ~PlayerStrategy_should_hit(player_strategy, player_hand, get_dealer_up_card(dealer_hand))
    /\ pc' = "dealer_loop"
    /\ last' = NoCall
    /\ UNCHANGED <<sim, config, shoe, player_hands, dealer_hand, hand_num, deal_pos, cur_player, results, returned, current_stats, current_phase>>

\* the player's loop against a dealer blackjack ends; play_hand returns
PlayerStandBlackjack ==
    /\ pc = "player_loop_bj"
    /\ ~PlayerStrategy_should_hit(player_strategy, player_hand, get_dealer_up_card(dealer_hand))
    /\ AfterPlayHand(SidebetBlackjackReturn(player_hand, dealer_hand), results)
    /\ last' = NoCall
    /\ UNCHANGED <<sim, config, shoe, player_hands, dealer_hand, deal_pos>>

\* a dealer who does not play once the player has busted
DealerDraws_unless_player_bust(player, dealer) ==
    ~is_bust(player) /\ DealerStrategy_should_hit(dealer_strategy.hit_soft_17, dealer)

\* the condition of the dealer's loop; player_busted is computed before the
\* loop and not read by it
DealerDraws(player, dealer) ==
    DealerStrategy_should_hit(dealer_strategy.hit_soft_17, dealer)

\* while self.dealer_strategy.should_hit(dealer_hand):
\*     dealer_hand.add_card(self.shoe.draw())
DealerHit ==
    /\ pc = "dealer_loop"
    /\ DealerDraws(player_hand, dealer_hand)
    /\ \E r \in draw(shoe) :
         /\ shoe' = r.shoe
         /\ last' = DrawCall(r)
         /\ IF r.raised
            THEN /\ pc' = "IndexError"
                 /\ UNCHANGED dealer_hand
            ELSE /\ pc' = pc
                 /\ dealer_hand' = add_card(dealer_hand, r.card)
    /\ UNCHANGED <<sim, config, player_hands, hand_num, deal_pos, cur_player, results, returned, current_stats, current_phase>>

\* the dealer's loop ends; play_hand returns
DealerStand ==
    /\ pc = "dealer_loop"
    /\ ~DealerDraws(player_hand, dealer_hand)
    /\ AfterPlayHand(IF sim \in SidebetSimulators
                     THEN SidebetFinalReturn(player_hand, dealer_hand)
                     ELSE FinalReturn(player_hand, dealer_hand),
                     results)
    /\ last' = NoCall
    /\ UNCHANGED <<sim, config, shoe, player_hands, dealer_hand, deal_pos>>

\* BlackjackSimulator.run_simulation: self.shoe.return_to_discard(used_cards)
\* ends the iteration
ReturnCards ==
    /\ pc = "return"
    /\ LET r == return_to_discard(shoe, used_cards)
       IN  /\ shoe' = r.shoe
           /\ last' = [op |-> "return_to_discard", shuffled |-> r.shuffled,
                       raised |-> FALSE, cards |-> used_cards]
    /\ hand_num' = hand_num + 1
    /\ pc' = LoopNext
    /\ results' = IF LoopNext = "done"
                  THEN [results EXCEPT !.house_edge = run_simulation_house_edge(results)]
                  ELSE results
    /\ UNCHANGED <<sim, config, player_hands, dealer_hand, deal_pos, cur_player, returned,
                   current_stats, current_phase>>

---------------------------------------------------------------------------
(* InteractiveSimulator, driven phase by phase *)

\* player_hit and dealer_step end the turn on a bust or on 21
EndsTurn(hand) == is_bust(hand) \/ get_value(hand) = 21

\* player_hit: one card for the first player hand if the strategy hits, then
\* dealer_turn once the hand is bust or at 21; dealer_turn at once if it stands
InteractivePlayerHit ==
    /\ sim \in InteractiveSimulators
    /\ pc = "player_turn"
    /\ IF PlayerStrategy_should_hit(player_strategy, player_hands[1],
                                    get_dealer_up_card(dealer_hand))
       THEN \E r \in draw(shoe) :
              /\ shoe' = r.shoe
              /\ last' = DrawCall(r)
              /\ IF r.raised
                 THEN /\ pc' = "IndexError"
                      /\ UNCHANGED player_hands
                 ELSE /\ player_hands' = [player_hands EXCEPT ![1] = add_card(@, r.card)]
                      /\ pc' = IF EndsTurn(player_hands'[1]) THEN "dealer_step"
                                                             ELSE "player_turn"
       ELSE /\ pc' = "dealer_step"
            /\ last' = NoCall
            /\ UNCHANGED <<shoe, player_hands>>
    \* dealer_turn: self.current_phase = "dealer_turn"
    /\ current_phase' = IF pc' = "dealer_step" THEN "dealer_turn" ELSE current_phase
    /\ UNCHANGED <<sim, config, dealer_hand, hand_num, deal_pos, cur_player, results, returned, current_stats>>

\* player_stand: dealer_turn, which sets the phase and calls dealer_step
InteractivePlayerStand ==
    /\ sim \in InteractiveSimulators
    /\ pc = "player_turn"
    /\ pc' = "dealer_step"
    /\ current_phase' = "dealer_turn"
    /\ last' = NoCall
    /\ UNCHANGED <<sim, config, shoe, player_hands, dealer_hand, hand_num, deal_pos, cur_player, results, returned, current_stats>>

\* after its card InteractiveSimulator.dealer_step completes the hand on a bust
\* or on 21 and more, InteractiveSidebetSimulator.dealer_step when the dealer
\* strategy hits no more
DealerStepCompletes(hand) ==
    IF sim = "InteractiveSidebetSimulator"
    THEN ~DealerStrategy_should_hit(dealer_strategy.hit_soft_17, hand)
    ELSE is_bust(hand) \/ get_value(hand) >= 21

\* dealer_step, called by dealer_turn ("dealer_step") or in phase "dealer_turn":
\* one card if the dealer hits, then complete_hand when DealerStepCompletes;
\* complete_hand at once if the dealer stands
InteractiveDealerStep ==
    /\ sim \in InteractiveSimulators
    /\ pc \in {"dealer_step", "dealer_turn"}
    /\ IF DealerStrategy_should_hit(dealer_strategy.hit_soft_17, dealer_hand)
       THEN \E r \in draw(shoe) :
              /\ shoe' = r.shoe
              /\ last' = DrawCall(r)
              /\ IF r.raised
                 THEN /\ pc' = "IndexError"
                      /\ UNCHANGED dealer_hand
                 ELSE /\ dealer_hand' = add_card(dealer_hand, r.card)
                      /\ pc' = IF DealerStepCompletes(dealer_hand')
                               THEN "play_hand"
                               ELSE "dealer_turn"
       ELSE /\ pc' = "play_hand"
            /\ last' = NoCall
            /\ UNCHANGED <<shoe, dealer_hand>>
    /\ UNCHANGED <<sim, config, player_hands, hand_num, deal_pos, cur_player, results, returned, current_stats, current_phase>>

\* start_new_hand, called in phase "result": fresh hands replace the played
\* ones.  A session is followed for MaxHands hands, the start_new_hand after
\* the last one included.
InteractiveStartNewHand ==
    /\ sim \in InteractiveSimulators
    /\ pc = "result"
    /\ hand_num <= MaxHands
    /\ player_hands' = [i \in 1..config.num_players |-> Hand]
    /\ dealer_hand' = [Hand EXCEPT !.is_dealer_hand = TRUE]
    /\ pc' = "init"
    /\ current_phase' = "init"
    /\ deal_pos' = 0
    /\ last' = [op |-> "start_new_hand", shuffled |-> FALSE, raised |-> FALSE,
                cards |-> <<>>]
    /\ UNCHANGED <<sim, config, shoe, hand_num, cur_player, results, returned, current_stats>>

Next ==
    \/ BlackjackRoundStart
    \/ SidebetRoundStart
    \/ DealCard
    \/ PlayHandBlackjack
    \/ PlayHandBegin
    \/ PlayerHit
    \/ PlayerStand
    \/ PlayerStandBlackjack
    \/ DealerHit
    \/ DealerStand
    \/ ReturnCards
    \/ InteractivePlayerHit
    \/ InteractivePlayerStand
    \/ InteractiveDealerStep
    \/ InteractiveStartNewHand

Spec == Init /\ [][Next]_vars

---------------------------------------------------------------------------
(* The interactive simulators called in any order *)

\* a complete_hand that lets the phase "result" through as well
AllowedPhases_complete_in_result(op) ==
    IF op = "deal_cards" THEN {"init"}
    ELSE IF op \in {"player_hit", "player_stand", "dealer_turn"} THEN {"player_turn"}
    ELSE IF op = "dealer_step" THEN {"dealer_turn"}
    ELSE {"player_turn", "dealer_turn", "result"}

\* the methods that begin with a test of self.current_phase
GuardedCalls == {"deal_cards", "player_hit", "player_stand", "dealer_turn", "dealer_step",
                 "complete_hand"}

\* the phases the first statement of a method lets through
AllowedPhases(op) ==
    IF op = "deal_cards" THEN {"init"}
    ELSE IF op \in {"player_hit", "player_stand", "dealer_turn"} THEN {"player_turn"}
    ELSE IF op = "dealer_step" THEN {"dealer_turn"}
    ELSE {"player_turn", "dealer_turn"}

\* no method is running: the simulator waits for its next call
AtRest == pc \in {"init", "player_turn", "dealer_turn", "result"}

\* return {"error": ...}
ErrorCall(op) ==
    [op |-> op, shuffled |-> FALSE, raised |-> FALSE, cards |-> <<>>, returns |-> "error"]

StartCall(cards) ==
    [op |-> "start_new_hand", shuffled |-> FALSE, raised |-> FALSE, cards |-> cards]

\* a guarded method called in a phase its first statement rejects
InteractiveWrongPhase ==
    /\ sim \in InteractiveSimulators
    /\ AtRest
    /\ \E op \in GuardedCalls :
         /\ current_phase \notin AllowedPhases(op)
         /\ last' = ErrorCall(op)
    /\ UNCHANGED <<sim, config, shoe, player_hands, dealer_hand, pc, hand_num, deal_pos,
                   cur_player, results, returned, current_stats, current_phase>>

\* complete_hand called by the user in phase player_turn or dealer_turn
InteractiveCompleteHand ==
    /\ sim \in InteractiveSimulators
    /\ AtRest
    /\ current_phase \in AllowedPhases("complete_hand")
    /\ pc' = "play_hand"
    /\ last' = [op |-> "complete_hand", shuffled |-> FALSE, raised |-> FALSE, cards |-> <<>>]
    /\ UNCHANGED <<sim, config, shoe, player_hands, dealer_hand, hand_num, deal_pos,
                   cur_player, results, returned, current_stats, current_phase>>

\* start_new_hand() called before the hand has reached "result": nothing in
\* the method tests the phase
InteractiveRestart ==
    /\ sim \in InteractiveSimulators
    /\ pc \in {"init", "player_turn", "dealer_turn"}
    /\ player_hands' = [i \in 1..config.num_players |-> Hand]
    /\ dealer_hand' = [Hand EXCEPT !.is_dealer_hand = TRUE]
    /\ pc' = "init"
    /\ current_phase' = "init"
    /\ deal_pos' = 0
    /\ last' = StartCall(<<>>)
    /\ UNCHANGED <<sim, config, shoe, hand_num, cur_player, results, returned, current_stats>>

\* the initial cards start_new_hand is given: a blackjack and a hard 16 for
\* the player, a twenty for the dealer
InitialCards ==
    { <<Card("Spades", "King"), Card("Spades", "Ace")>>,
      <<Card("Spades", "King"), Card("Spades", "6")>> }

DealerInitialCards == { <<Card("Spades", "King"), Card("Spades", "King")>> }

RECURSIVE AddCards(_, _)
AddCards(hand, cards) ==
    IF cards = <<>> THEN hand
    ELSE AddCards(add_card(hand, Head(cards)), Tail(cards))

\* InteractiveSidebetSimulator.start_new_hand(player_initial_cards,
\* dealer_initial_cards): the hands are filled from the arguments, the phase
\* is "player_turn", and complete_hand follows at once on a blackjack
InteractiveStartWithCards ==
    /\ sim = "InteractiveSidebetSimulator"
    /\ AtRest
    /\ \E pcards \in InitialCards, dcards \in DealerInitialCards :
         /\ player_hands' = [i \in 1..config.num_players |->
                                IF i = 1 THEN AddCards(Hand, pcards) ELSE Hand]
         /\ dealer_hand' = AddCards([Hand EXCEPT !.is_dealer_hand = TRUE], dcards)
         /\ last' = StartCall(pcards \o dcards)
    /\ current_phase' = "player_turn"
    /\ pc' = AfterDeal(player_hands', dealer_hand')
    /\ deal_pos' = 0
    /\ UNCHANGED <<sim, config, shoe, hand_num, cur_player, results, returned, current_stats>>

\* the exception of the last call has reached the caller, who goes on with the
\* simulator as it is; followed until MaxHands hands were played out
InteractiveResume ==
    /\ sim \in InteractiveSimulators
    /\ pc \in {"IndexError", "TypeError"}
    /\ Len(returned) < MaxHands
    /\ pc' = current_phase
    /\ deal_pos' = 0
    /\ last' = NoCall
    /\ UNCHANGED <<sim, config, shoe, player_hands, dealer_hand, hand_num, cur_player,
                   results, returned, current_stats, current_phase>>

\* one player hand; a shoe of MaxDecks decks that reshuffles at MaxCutoff, and
\* a shoe of no deck, whose draw raises
PhaseConfigs ==
    {c \in Configs : /\ c.num_players = 1
                     /\ \/ c.num_decks = MaxDecks /\ c.reshuffle_cutoff = MaxCutoff
                        \/ c.num_decks = 0 /\ c.reshuffle_cutoff = 0}

\* an interactive simulator after setup() and its first start_new_hand()
PhaseInit ==
    /\ sim \in InteractiveSimulators
    /\ config \in PhaseConfigs
    \* only the play_hand of SidebetSimulator reads hit_against_blackjack
    /\ sim \notin SidebetSimulators => ~config.hit_against_blackjack
    /\ shoe = Shoe(config.num_decks, config.reshuffle_cutoff)
    /\ player_hands = [i \in 1..config.num_players |-> Hand]
    /\ dealer_hand = [Hand EXCEPT !.is_dealer_hand = TRUE]
    /\ pc = "init"
    /\ hand_num = 0
    /\ deal_pos = 0
    /\ cur_player = 1
    /\ last = NoCall
    /\ results = SetupResults
    /\ returned = <<>>
    /\ current_stats = NewCurrentStats
    /\ current_phase = NewPhase

PhaseNext ==
    \/ DealCard
    \/ PlayHandBlackjack
    \/ PlayHandBegin
    \/ PlayerHit
    \/ PlayerStand
    \/ PlayerStandBlackjack
    \/ DealerHit
    \/ DealerStand
    \/ InteractivePlayerHit
    \/ InteractivePlayerStand
    \/ InteractiveDealerStep
    \/ InteractiveStartNewHand
    \/ InteractiveRestart
    \/ InteractiveStartWithCards
    \/ InteractiveCompleteHand
    \/ InteractiveWrongPhase
    \/ InteractiveResume

PhaseSpec == PhaseInit /\ [][PhaseNext]_vars

---------------------------------------------------------------------------
(* Hands built card by card: Hand(), add_card, clear *)

\* the suit of the cards handed to add_card (the suit is never read by Hand)
HandSuits == {"Spades"}

HandInit ==
    /\ sim = "Hand"
    /\ config = [num_hands |-> 0, num_decks |-> 0, reshuffle_cutoff |-> 0, num_players |-> 1,
                 player_hit_soft_17 |-> FALSE, dealer_hit_soft_17 |-> FALSE,
                 hit_against_blackjack |-> FALSE, player_hit_rules |-> <<>>]
    /\ shoe = Shoe(0, 0)
    /\ player_hands = <<Hand>>
    /\ dealer_hand = Hand
    /\ pc = "hand"
    /\ hand_num = 0
    /\ deal_pos = 0
    /\ cur_player = 1
    /\ last = NoCall
    /\ results = NewResults
    /\ returned = <<>>
    /\ current_stats = NewCurrentStats
    /\ current_phase = NewPhase

HandAddCard ==
    /\ pc = "hand"
    /\ Len(player_hands[1].cards) < MaxHandLen
    /\ \E suit \in HandSuits, rank \in Range(RANKS) :
         player_hands' = <<add_card(player_hands[1], Card(suit, rank))>>
    /\ UNCHANGED <<sim, config, shoe, dealer_hand, pc, hand_num, deal_pos, cur_player, last, results, returned, current_stats, current_phase>>

HandClear ==
    /\ pc = "hand"
    /\ player_hands[1].cards # <<>>
    /\ player_hands' = <<clear(player_hands[1])>>
    /\ UNCHANGED <<sim, config, shoe, dealer_hand, pc, hand_num, deal_pos, cur_player, last, results, returned, current_stats, current_phase>>

HandNext ==
    \/ HandAddCard
    \/ HandClear

HandSpec == HandInit /\ [][HandNext]_vars

---------------------------------------------------------------------------
(* The strategies on hands built card by card *)

\* the ranks of the cards handed to add_card: hard and soft 16 and 17 and
\* their neighbours, 21 and the busts
StrategyRanks == <<"5", "6", "King", "Ace">>

\* the dealer's up card, when the dealer hand holds one
UpRanks == {"6", "King", "Ace"}

\* hit_rules tables: {}, and rules for hard 16, hard 17 and soft 17 against a
\* ten and an Ace that agree and disagree with the default rule
StrategyTables ==
    { <<>>,
      (HardKey(16, 10) :> FALSE) @@ (SoftKey(17, 11) :> TRUE),
      (HardKey(17, 10) :> TRUE),
      (SoftKey(17, 10) :> TRUE) @@ (HardKey(16, 10) :> TRUE) }

StrategyInit ==
    /\ sim = "PlayerStrategy"
    /\ config \in [num_hands : {0}, num_decks : {0}, reshuffle_cutoff : {0},
                   num_players : {1},
                   player_hit_soft_17 : BOOLEAN, dealer_hit_soft_17 : BOOLEAN,
                   hit_against_blackjack : {FALSE},
                   player_hit_rules : StrategyTables]
    /\ shoe = Shoe(0, 0)
    /\ player_hands = <<Hand>>
    /\ dealer_hand \in {[Hand EXCEPT !.is_dealer_hand = TRUE]}
                       \cup {[cards |-> <<Card(suit, rank)>>, is_dealer_hand |-> TRUE] :
                                suit \in HandSuits, rank \in UpRanks}
    /\ pc = "strategy"
    /\ hand_num = 0
    /\ deal_pos = 0
    /\ cur_player = 1
    /\ last = NoCall
    /\ results = NewResults
    /\ returned = <<>>
    /\ current_stats = NewCurrentStats
    /\ current_phase = NewPhase

StrategyAddCard ==
    /\ pc = "strategy"
    /\ Len(player_hands[1].cards) < MaxHandLen
    /\ \E suit \in HandSuits, rank \in Range(StrategyRanks) :
         player_hands' = <<add_card(player_hands[1], Card(suit, rank))>>
    /\ UNCHANGED <<sim, config, shoe, dealer_hand, pc, hand_num, deal_pos, cur_player, last, results, returned, current_stats, current_phase>>

StrategyNext == StrategyAddCard

StrategySpec == StrategyInit /\ [][StrategyNext]_vars

---------------------------------------------------------------------------
(* The simulators under varied payout parameters *)

\* commission percentages: none, and the default
CommissionPcts == {0, DefaultCommissionPct}

\* blackjack payout ratios, in hundredths: the default 1:1, and 3:2
BlackjackPayouts == {DefaultBlackjackPayout, (3 * DefaultBlackjackPayout) \div 2}

\* one player on a continuous shoe of MaxDecks decks, every payout setting
PayoutConfigs ==
    [num_hands : {MaxHands},
     num_decks : {MaxDecks},
     reshuffle_cutoff : {0},
     num_players : {1},
     player_hit_soft_17 : {FALSE},
     dealer_hit_soft_17 : {FALSE},
     hit_against_blackjack : BOOLEAN,
     player_hit_rules : HitRuleTables,
     commission_pct : CommissionPcts,
     blackjack_payout : BlackjackPayouts,
     commission_on_blackjack : BOOLEAN]

PayoutInit ==
    /\ sim \in Simulators
    /\ config \in PayoutConfigs
    /\ shoe = Shoe(config.num_decks, config.reshuffle_cutoff)
    /\ IF sim = "InteractiveSimulator"
       THEN /\ player_hands = [i \in 1..config.num_players |-> Hand]
            /\ dealer_hand = [Hand EXCEPT !.is_dealer_hand = TRUE]
            /\ pc = "init"
       ELSE /\ player_hands = <<>>
            /\ dealer_hand = Hand
            /\ pc = "round_start"
    /\ hand_num = 0
    /\ deal_pos = 0
    /\ cur_player = 1
    /\ last = NoCall
    /\ results = SetupResults
    /\ returned = <<>>
    /\ current_stats = NewCurrentStats
    /\ current_phase = NewPhase

PayoutSpec == PayoutInit /\ [][Next]_vars

---------------------------------------------------------------------------
(* play_hand on freshly dealt hands, under override tables that hit above 21 *)

\* the highest total an override of the tables below is keyed on
MaxRuleTotal == 23

\* the values get_value gives the up cards of the deck
UpValues == {Card_get_value(Deck_build[i]) : i \in DOMAIN Deck_build}

\* player_hit_rules: none; hit on every hard total above 21 up to MaxRuleTotal;
\* stand on every hard total from 12 to 16
TerminationTables ==
    {<<>>,
     [k \in {HardKey(v, d) : v \in 22..MaxRuleTotal, d \in UpValues} |-> TRUE],
     [k \in {HardKey(v, d) : v \in 12..16, d \in UpValues} |-> FALSE]}

\* one player, a shoe of MaxDecks decks with and without a cutoff, every
\* soft-17 setting
TerminationConfigs ==
    [num_hands : {MaxHands},
     num_decks : {MaxDecks},
     reshuffle_cutoff : {0, MaxCutoff},
     num_players : {1},
     player_hit_soft_17 : BOOLEAN,
     dealer_hit_soft_17 : BOOLEAN,
     hit_against_blackjack : {FALSE},
     player_hit_rules : TerminationTables,
     commission_pct : {DefaultCommissionPct},
     blackjack_payout : {DefaultBlackjackPayout},
     commission_on_blackjack : {TRUE}]

\* after setup(), with one fresh player hand and the dealer's, about to deal
TerminationInit ==
    /\ sim = "BlackjackSimulator"
    /\ config \in TerminationConfigs
    /\ shoe = Shoe(config.num_decks, config.reshuffle_cutoff)
    /\ player_hands = <<Hand>>
    /\ dealer_hand = Hand
    /\ pc = "deal"
    /\ hand_num = 0
    /\ deal_pos = 0
    /\ cur_player = 1
    /\ last = NoCall
    /\ results = SetupResults
    /\ returned = <<>>
    /\ current_stats = NewCurrentStats
    /\ current_phase = NewPhase

\* play_hand returns on a blackjack; the caller does nothing further
PlayHandReturnBlackjack ==
    /\ pc = "play_hand"
    /\ ReturnsOnBlackjack
    /\ returned' = Append(returned, BlackjackReturn(player_hand, dealer_hand))
    /\ results' = TrackBlackjacks(results, player_hand, dealer_hand)
    /\ pc' = "returned"
    /\ last' = NoCall
    /\ UNCHANGED <<sim, config, shoe, player_hands, dealer_hand, hand_num, deal_pos,
                   cur_player, current_stats, current_phase>>

\* play_hand returns after the dealer's loop; the caller does nothing further
PlayHandReturn ==
    /\ pc = "dealer_loop"
    /\ ~DealerDraws(player_hand, dealer_hand)
    /\ returned' = Append(returned, FinalReturn(player_hand, dealer_hand))
    /\ pc' = "returned"
    /\ last' = NoCall
    /\ UNCHANGED <<sim, config, shoe, player_hands, dealer_hand, hand_num, deal_pos,
                   cur_player, results, current_stats, current_phase>>

\* deal_initial_cards, then play_hand
TerminationNext ==
    \/ DealCard
    \/ PlayHandReturnBlackjack
    \/ PlayHandBegin
    \/ PlayerHit
    \/ PlayerStand
    \/ DealerHit
    \/ PlayHandReturn

\* play_hand is sequential code: the statement it is at is executed
TerminationSpec == TerminationInit /\ [][TerminationNext]_vars /\ WF_vars(TerminationNext)

---------------------------------------------------------------------------
(* The simulators under varied side-bet settings *)

\* SimulationConfig.__init__: the default sidebet_payouts of a payout mode
DefaultSidebetPayouts(mode) ==
    IF mode = "total"
    THEN [k \in {IntKey(v) : v \in 17..21} \cup {"bust-bust", "blackjack-blackjack"} |-> 1]
    ELSE [k \in {IntKey(n) : n \in 4..11} \cup {"12+"} |-> 1]

\* a table supplied by the user that lists a single category of each mode
UserSidebetPayouts == (IntKey(20) :> 2) @@ (IntKey(4) :> 2)

\* sidebet_payout_mode and sidebet_payouts: each mode with its default table
\* and with the user's table
SidebetSettings ==
    UNION {{[mode |-> m, payouts |-> DefaultSidebetPayouts(m)],
            [mode |-> m, payouts |-> UserSidebetPayouts]} : m \in {"total", "cards"}}

\* one player on a continuous shoe of MaxDecks decks, the default payouts of the
\* primary bet, every side-bet setting
SidebetConfigs ==
    {[num_hands |-> MaxHands,
      num_decks |-> MaxDecks,
      reshuffle_cutoff |-> 0,
      num_players |-> 1,
      player_hit_soft_17 |-> FALSE,
      dealer_hit_soft_17 |-> FALSE,
      hit_against_blackjack |-> h,
      player_hit_rules |-> <<>>,
      commission_pct |-> DefaultCommissionPct,
      blackjack_payout |-> DefaultBlackjackPayout,
      commission_on_blackjack |-> TRUE,
      sidebet_payout_mode |-> st.mode,
      sidebet_payouts |-> st.payouts] : h \in BOOLEAN, st \in SidebetSettings}

SidebetInit ==
    /\ sim \in Simulators
    /\ config \in SidebetConfigs
    /\ shoe = Shoe(config.num_decks, config.reshuffle_cutoff)
    /\ IF sim = "InteractiveSimulator"
       THEN /\ player_hands = [i \in 1..config.num_players |-> Hand]
            /\ dealer_hand = [Hand EXCEPT !.is_dealer_hand = TRUE]
            /\ pc = "init"
       ELSE /\ player_hands = <<>>
            /\ dealer_hand = Hand
            /\ pc = "round_start"
    /\ hand_num = 0
    /\ deal_pos = 0
    /\ cur_player = 1
    /\ last = NoCall
    /\ results = SetupResults
    /\ returned = <<>>
    /\ current_stats = NewCurrentStats
    /\ current_phase = NewPhase

SidebetSpec == SidebetInit /\ [][Next]_vars

---------------------------------------------------------------------------
(* The aggregator fed round results one by one *)

\* the result labels BlackjackSimulator.play_hand returns
Labels == {"player_win", "player_win_blackjack", "dealer_win", "push"}

\* final values of the player: standing, and past 30 (a hit rule may keep the
\* player drawing after a bust)
PlayerValues == {20, 31}

\* final values of the dealer: standing, and bust
DealerValues == {21, 22}

\* the tuples update_statistics is called with
RoundResults ==
    {Return(r, p, d) : r \in Labels, p \in PlayerValues, d \in DealerValues}

\* a BlackjackSimulator after setup(), under any payout setting
StatsInit ==
    /\ sim = "BlackjackSimulator"
    /\ config \in {c \in PayoutConfigs : ~c.hit_against_blackjack}
    /\ shoe = Shoe(config.num_decks, config.reshuffle_cutoff)
    /\ player_hands = <<>>
    /\ dealer_hand = Hand
    /\ pc = "update_statistics"
    /\ hand_num = 0
    /\ deal_pos = 0
    /\ cur_player = 1
    /\ last = NoCall
    /\ results = NewResults
    /\ returned = <<>>
    /\ current_stats = NewCurrentStats
    /\ current_phase = NewPhase

\* a setup() that keeps the dictionary of the run before
setup_keeps_results(res) == res

\* BlackjackSimulator.setup, lines 48-59: self.results is assigned a new
\* dictionary, whatever the one before held
setup(res) == SetupResults

\* a call of setup(), on a simulator that had aggregated rounds or had not
SetupCall(aggregated) ==
    [op |-> "setup", shuffled |-> FALSE, raised |-> FALSE, cards |-> <<>>,
     aggregated |-> aggregated]

\* self.setup(), again: by the caller, or as the first statement of
\* run_simulation
StatsSetup ==
    /\ pc = "update_statistics"
    /\ shoe' = Shoe(config.num_decks, config.reshuffle_cutoff)
    /\ results' = setup(results)
    /\ returned' = <<>>
    /\ last' = SetupCall(returned # <<>>)
    /\ UNCHANGED <<sim, config, player_hands, dealer_hand, pc, hand_num, deal_pos,
                   cur_player, current_stats, current_phase>>

\* self.update_statistics(result, player_value, dealer_value)
StatsUpdate ==
    /\ pc = "update_statistics"
    /\ Len(returned) < MaxRounds
    /\ \E ret \in RoundResults :
         /\ results' = update_statistics(results, ret)
         /\ returned' = Append(returned, ret)
    /\ UNCHANGED <<sim, config, shoe, player_hands, dealer_hand, pc, hand_num, deal_pos,
                   cur_player, last, current_stats, current_phase>>

StatsNext ==
    \/ StatsUpdate
    \/ StatsSetup

StatsSpec == StatsInit /\ [][StatsNext]_vars

---------------------------------------------------------------------------
(* The summary and the report asked of a simulator *)

\* BlackjackSimulator.__init__: self.results = None.  None and the empty
\* dictionary are the values "not self.results" holds of.
NoResults == [k \in {} |-> 0]

Falsy(res) == DOMAIN res = {}

NoData == "No simulation results available."

Returns(value) == [returns |-> value, raises |-> "None"]

Raises(exception) == [returns |-> "None", raises |-> exception]

\* BlackjackSimulator.get_results_summary.  The list of lines is built in
\* order: self.results['simulation_time'] is read before the first division
\* that is not guarded by total_hands > 0.
get_results_summary(res) ==
    IF Falsy(res) THEN Returns(NoData)
    ELSE IF "simulation_time" \notin DOMAIN res THEN Raises("KeyError")
    ELSE IF res.total_bets = 0 THEN Raises("ZeroDivisionError")
    ELSE Returns("Simulation Results Summary")

\* ReportGenerator.generate_summary_report
generate_summary_report(res) ==
    IF Falsy(res) THEN Raises("ValueError")
    ELSE IF get_results_summary(res).raises # "None" THEN get_results_summary(res)
    ELSE Returns("filepath")

QueryCall(op, outcome) ==
    [op |-> op, shuffled |-> FALSE, raised |-> outcome.raises # "None", cards |-> <<>>,
     outcome |-> outcome]

\* runs of no round up to MaxRounds rounds, one player, default payouts
QueryConfigs ==
    {[c EXCEPT !.num_hands = n] :
        c \in {d \in Configs : /\ d.num_players = 1
                               /\ d.num_decks = MaxDecks
                               /\ d.reshuffle_cutoff = 0
                               /\ ~d.hit_against_blackjack
                               /\ d.player_hit_rules = <<>>},
        n \in 0..MaxRounds}

\* a BlackjackSimulator after __init__
QueryInit ==
    /\ sim = "BlackjackSimulator"
    /\ config \in QueryConfigs
    /\ shoe = Shoe(config.num_decks, config.reshuffle_cutoff)
    /\ player_hands = <<>>
    /\ dealer_hand = Hand
    /\ pc = "constructed"
    /\ hand_num = 0
    /\ deal_pos = 0
    /\ cur_player = 1
    /\ last = NoCall
    /\ results = NoResults
    /\ returned = <<>>
    /\ current_stats = NewCurrentStats
    /\ current_phase = NewPhase

\* the caller's own self.setup()
QuerySetup ==
    /\ pc \in {"constructed", "set_up", "finished"}
    /\ pc' = "set_up"
    /\ results' = setup(results)
    /\ returned' = <<>>
    /\ last' = SetupCall(returned # <<>>)
    /\ UNCHANGED <<sim, config, shoe, player_hands, dealer_hand, hand_num, deal_pos,
                   cur_player, current_stats, current_phase>>

\* run_simulation, line 222: self.setup()
QueryRunBegin ==
    /\ pc \in {"constructed", "set_up", "finished"}
    /\ pc' = "loop"
    /\ results' = setup(results)
    /\ returned' = <<>>
    /\ last' = SetupCall(returned # <<>>)
    /\ UNCHANGED <<sim, config, shoe, player_hands, dealer_hand, hand_num, deal_pos,
                   cur_player, current_stats, current_phase>>

\* run_simulation, lines 227-258: one round of the loop, by its result
QueryRound ==
    /\ pc = "loop"
    /\ Len(returned) < config.num_hands
    /\ \E ret \in RoundResults :
         /\ results' = update_statistics(results, ret)
         /\ returned' = Append(returned, ret)
    /\ last' = NoCall
    /\ UNCHANGED <<sim, config, shoe, player_hands, dealer_hand, pc, hand_num, deal_pos,
                   cur_player, current_stats, current_phase>>

\* run_simulation, lines 263-272: house_edge and simulation_time
QueryRunEnd ==
    /\ pc = "loop"
    /\ Len(returned) = config.num_hands
    /\ pc' = "finished"
    /\ results' = [results EXCEPT !.house_edge = run_simulation_house_edge(results)]
                    @@ [simulation_time |-> "elapsed_time"]
    /\ last' = NoCall
    /\ UNCHANGED <<sim, config, shoe, player_hands, dealer_hand, hand_num, deal_pos,
                   cur_player, returned, current_stats, current_phase>>

\* simulator.get_results_summary()
QuerySummary ==
    /\ pc \in {"constructed", "set_up", "finished"}
    /\ last' = QueryCall("get_results_summary", get_results_summary(results))
    /\ UNCHANGED <<sim, config, shoe, player_hands, dealer_hand, pc, hand_num, deal_pos,
                   cur_player, results, returned, current_stats, current_phase>>

\* ReportGenerator(simulator).generate_summary_report()
QueryReport ==
    /\ pc \in {"constructed", "set_up", "finished"}
    /\ last' = QueryCall("generate_summary_report", generate_summary_report(results))
    /\ UNCHANGED <<sim, config, shoe, player_hands, dealer_hand, pc, hand_num, deal_pos,
                   cur_player, results, returned, current_stats, current_phase>>

QueryNext ==
    \/ QuerySetup
    \/ QueryRunBegin
    \/ QueryRound
    \/ QueryRunEnd
    \/ QuerySummary
    \/ QueryReport

QuerySpec == QueryInit /\ [][QueryNext]_vars

---------------------------------------------------------------------------
(* Properties of Shoe in the round loop *)

\* the number of cards the hands of the round hold; none between two rounds
CardsInPlay ==
    IF pc \in {"deal", "play_hand", "player_loop", "player_loop_bj",
               "dealer_loop", "return", "IndexError", "TypeError",
               "init", "player_turn", "dealer_step", "dealer_turn", "result"}
    THEN Len(used_cards)
    ELSE 0

\* C1: right after every reshuffle (in draw() in cutoff mode, in
\* return_to_discard in continuous mode), len(shoe.cards) + len(shoe.discard_pile)
\* + the number of cards held in the round's hands is 52 x num_decks
C1_CardsConservedAfterReshuffle ==
    (last.op \in {"draw", "return_to_discard"} /\ last.shuffled) =>
        Shoe_len(shoe) + BagCardinality(shoe.discard_pile) + CardsInPlay
            = DeckSize * config.num_decks

\* C2: in cutoff mode draw() rebuilds and shuffles exactly when
\* len(cards) <= reshuffle_cutoff at entry and otherwise only removes one card;
\* a rebuild with an empty discard pile leaves 52 x num_decks - 1 cards
C2_CutoffDrawReshufflesAtCutoff ==
    [][(last'.op = "draw" /\ ~shoe.continuous_shuffle) =>
          /\ last'.shuffled <=> (Shoe_len(shoe) <= shoe.reshuffle_cutoff)
          /\ ~last'.shuffled =>
                /\ ~last'.raised
                /\ shoe'.discard_pile = shoe.discard_pile
                /\ \E c \in BagToSet(shoe.cards) :
                      shoe'.cards = shoe.cards (-) SetToBag({c})
          /\ (last'.shuffled /\ shoe.discard_pile = EmptyBag /\ ~last'.raised) =>
                Shoe_len(shoe') = DeckSize * shoe.num_decks - 1]_vars

\* a draw in cutoff mode that rebuilt the shoe and left 52 x num_decks - 1 cards
C2_Witness ==
    /\ last.op = "draw"
    /\ last.shuffled
    /\ ~last.raised
    /\ ~shoe.continuous_shuffle
    /\ config.num_decks >= 1
    /\ Shoe_len(shoe) = DeckSize * config.num_decks - 1

\* C3: in continuous mode draw() never rebuilds the shoe, whatever is left; the
\* shoe is only replenished and reshuffled by return_to_discard
C3_ContinuousDrawNeverRebuilds ==
    [][shoe.continuous_shuffle =>
          /\ last'.op = "draw" =>
                /\ ~last'.shuffled
                /\ shoe'.discard_pile = shoe.discard_pile
                /\ Shoe_len(shoe') = Shoe_len(shoe) - (IF last'.raised THEN 0 ELSE 1)
          /\ (last'.shuffled \/ Shoe_len(shoe') > Shoe_len(shoe)) =>
                last'.op = "return_to_discard"]_vars

\* a draw on a continuous shoe of at least one deck that found no card left, and
\* did not rebuild it
C3_Witness ==
    /\ last.op = "draw"
    /\ last.raised
    /\ ~last.shuffled
    /\ shoe.continuous_shuffle
    /\ config.num_decks >= 1
    /\ Shoe_len(shoe) = 0

\* C4: return_to_discard(cards) in continuous mode moves the returned cards and
\* the discard pile into the live shoe, shuffles it and leaves the discard pile
\* empty; in cutoff mode it appends the cards to the discard pile and leaves the
\* live shoe unchanged
C4_ReturnToDiscardEffect ==
    [][last'.op = "return_to_discard" =>
          /\ shoe'.num_decks = shoe.num_decks
          /\ shoe'.reshuffle_cutoff = shoe.reshuffle_cutoff
          /\ shoe'.continuous_shuffle = shoe.continuous_shuffle
          /\ IF shoe.continuous_shuffle
             THEN /\ shoe'.discard_pile = EmptyBag
                  /\ shoe'.cards =
                        shoe.cards (+) shoe.discard_pile (+) SeqToBag(last'.cards)
                  /\ last'.shuffled
             ELSE /\ shoe'.discard_pile = shoe.discard_pile (+) SeqToBag(last'.cards)
                  /\ shoe'.cards = shoe.cards
                  /\ ~last'.shuffled]_vars

\* a round's cards returned into a continuous shoe
C4_Witness ==
    /\ last.op = "return_to_discard"
    /\ last.cards # <<>>
    /\ last.shuffled
    /\ shoe.continuous_shuffle
    /\ shoe.discard_pile = EmptyBag
    /\ \A i \in DOMAIN last.cards : BagIn(last.cards[i], shoe.cards)

\* C5: at the end of every round every card of the round's hands is returned to
\* the shoe through return_to_discard before the next round is dealt
\* (whenever fresh hands replace the hands of a round that was dealt, the
\* round's cards have just been passed to return_to_discard)
C5_RoundEndReturnsCards ==
    [][(Len(used_cards) > 0 /\ Len(used_cards') = 0) =>
          /\ last.op = "return_to_discard"
          /\ SeqToBag(last.cards) = SeqToBag(used_cards)]_vars

\* draw() finds no card once its reshuffle, if any, is done
NoCardsAfterReshuffle(sh) ==
    IF ~sh.continuous_shuffle /\ Shoe_len(sh) <= sh.reshuffle_cutoff
    THEN DeckSize * sh.num_decks + BagCardinality(sh.discard_pile) = 0
    ELSE Shoe_len(sh) = 0

\* C6: draw() on a shoe with no cards left after the attempted reshuffle raises
\* instead of returning a card, and leaves the shoe and the discard pile as
\* they were
C6_EmptyShoeDrawRaises ==
    [][last'.op = "draw" =>
          /\ last'.raised <=> NoCardsAfterReshuffle(shoe)
          /\ last'.raised =>
                /\ shoe'.cards = shoe.cards
                /\ shoe'.discard_pile = shoe.discard_pile
                /\ player_hands' = player_hands
                /\ dealer_hand' = dealer_hand
                /\ pc' = "IndexError"]_vars

\* a draw that raised in the middle of a round
C6_Witness ==
    /\ last.op = "draw"
    /\ last.raised
    /\ pc = "IndexError"
    /\ Shoe_len(shoe) = 0
    /\ Len(used_cards) > 0

---------------------------------------------------------------------------
(* Properties of Hand *)

\* every Hand object of the state
AllHands == Range(player_hands) \cup {dealer_hand}

\* the ranks of a hand's cards, in order
RanksOf(hand) == [i \in DOMAIN hand.cards |-> hand.cards[i].rank]

\* the number of Aces of a hand
NumAces(hand) == Cardinality({i \in DOMAIN hand.cards : hand.cards[i].rank = "Ace"})

\* the value of a rank with the Ace at ace_value
RankValue(rank, ace_value) ==
    CASE rank = "Ace" -> ace_value
      [] rank \in {"Jack", "Queen", "King", "10"} -> 10
      [] rank = "2" -> 2 [] rank = "3" -> 3 [] rank = "4" -> 4 [] rank = "5" -> 5
      [] rank = "6" -> 6 [] rank = "7" -> 7 [] rank = "8" -> 8 [] rank = "9" -> 9

\* the total of a hand with every Ace at ace_value
RECURSIVE TotalWith(_, _, _)
TotalWith(hand, n, ace_value) ==
    IF n = 0 THEN 0
    ELSE TotalWith(hand, n - 1, ace_value) + RankValue(hand.cards[n].rank, ace_value)

NominalTotal(hand) == TotalWith(hand, Len(hand.cards), 11)

LowTotal(hand) == TotalWith(hand, Len(hand.cards), 1)

\* the totals of a hand over all valuations of its Aces (k of them at 11)
Valuations(hand) == {LowTotal(hand) + 10 * k : k \in 0..NumAces(hand)}

Max(S) == CHOOSE x \in S : \A y \in S : y <= x

\* the highest total not above 21 when there is one, else the total with every Ace at 1
BestTotal(hand) ==
    LET good == {v \in Valuations(hand) : v <= 21}
    IN  IF good # {} THEN Max(good) ELSE LowTotal(hand)

\* the number of Aces taken from 11 down to 1: the first r at which the total
\* is no longer above 21, or all of them
Reductions(hand) ==
    CHOOSE r \in 0..NumAces(hand) :
        /\ NominalTotal(hand) - 10 * r <= 21 \/ r = NumAces(hand)
        /\ \A q \in 0..(r - 1) : NominalTotal(hand) - 10 * q > 21

\* C7: for every sequence of cards, get_value() is the nominal sum (Ace = 11)
\* less 10 for each Ace taken down while the total is above 21 and an Ace is
\* left, which is the highest total not above 21 over all valuations of the Aces
\* when there is one, and the total with every Ace at 1 otherwise
C7_ValueIsAceAdjustedSum ==
    \A hand \in AllHands :
        /\ get_value(hand) = NominalTotal(hand) - 10 * Reductions(hand)
        /\ get_value(hand) = BestTotal(hand)
        /\ RanksOf(hand) = <<"King", "Queen", "5">> => get_value(hand) = 25 /\ is_bust(hand)

\* a hand of three Aces and more, two of them taken down and one left at 11
C7_Witness ==
    \E hand \in AllHands :
        /\ NumAces(hand) = 3
        /\ NominalTotal(hand) - get_value(hand) = 20
        /\ get_value(hand) <= 21

\* C8: for every hand, cardCount <= get_value() <= 11 * cardCount
C8_ValueBounds ==
    \A hand \in AllHands :
        /\ Len(hand.cards) <= get_value(hand)
        /\ get_value(hand) <= 11 * Len(hand.cards)

\* a hand that meets the upper bound: a single Ace, value 11
C8_Witness ==
    \E hand \in AllHands :
        /\ Len(hand.cards) = 1
        /\ get_value(hand) = 11 * Len(hand.cards)

\* the number of Aces get_value() counts as 11
AcesAtEleven(hand) == (get_value(hand) - LowTotal(hand)) \div 10

\* C9: is_soft() is True exactly when at least one Ace is counted as 11 in
\* get_value() without the total exceeding 21, i.e. value = total with all Aces
\* as 1, plus 10, and <= 21; [Ace, 6, Ace] is soft 18, every two-card blackjack
\* is soft and no bust hand is soft
C9_SoftIffAceAtEleven ==
    \A hand \in AllHands :
        /\ is_soft(hand) <=> (AcesAtEleven(hand) >= 1 /\ get_value(hand) <= 21)
        /\ is_soft(hand) <=> (/\ NumAces(hand) >= 1
                              /\ get_value(hand) = LowTotal(hand) + 10
                              /\ get_value(hand) <= 21)
        /\ RanksOf(hand) = <<"Ace", "6", "Ace">> => is_soft(hand) /\ get_value(hand) = 18
        /\ is_blackjack(hand) => is_soft(hand)
        /\ is_bust(hand) => ~is_soft(hand)

C9_Witness ==
    \E hand \in AllHands :
        /\ RanksOf(hand) = <<"Ace", "6", "Ace">>
        /\ is_soft(hand)
        /\ get_value(hand) = 18

\* C10: is_blackjack() is True iff the hand has exactly two cards and value 21
\* (an Ace and a ten-valued card); a 21 of three or more cards, such as
\* [7, 7, 7], is neither blackjack nor bust
C10_BlackjackIffTwoCards21 ==
    \A hand \in AllHands :
        /\ is_blackjack(hand) <=> (Len(hand.cards) = 2 /\ BestTotal(hand) = 21)
        /\ is_blackjack(hand) <=>
              (/\ Len(hand.cards) = 2
               /\ \E i, j \in DOMAIN hand.cards :
                     /\ i # j
                     /\ hand.cards[i].rank = "Ace"
                     /\ hand.cards[j].rank \in {"10", "Jack", "Queen", "King"})
        /\ (Len(hand.cards) >= 3 /\ get_value(hand) = 21) =>
              (~is_blackjack(hand) /\ ~is_bust(hand))

C10_Witness ==
    \E hand \in AllHands :
        /\ RanksOf(hand) = <<"7", "7", "7">>
        /\ get_value(hand) = 21
        /\ ~is_blackjack(hand)
        /\ ~is_bust(hand)

---------------------------------------------------------------------------
(* Properties of the strategies *)

\* a hand in which an Ace counts 11
SoftHand(hand) == NumAces(hand) >= 1 /\ LowTotal(hand) + 10 <= 21

\* the hand descriptor of the override table: the total, tagged hard or soft
Descriptor(hand) == <<IF SoftHand(hand) THEN "soft" ELSE "hard", BestTotal(hand)>>

\* the entry of a table for a hand and an up card
RuleKey(hand, up_card) ==
    <<Descriptor(hand)[1], Descriptor(hand)[2], RankValue(up_card.rank, 11)>>

\* the thresholds a PlayerStrategy is built with
Thresholds == {12, 17, 19}

\* the default rule of both strategies
DefaultHits(hand, threshold, hit_soft_17) ==
    \/ BestTotal(hand) < threshold
    \/ BestTotal(hand) = 17 /\ SoftHand(hand) /\ hit_soft_17

\* an override decides for the hand and the up card
OverrideApplies(hand, up_card, rules) ==
    up_card # None /\ DOMAIN rules # {} /\ RuleKey(hand, up_card) \in DOMAIN rules

\* C11: DealerStrategy.should_hit(hand) is True iff value < 17, or value = 17
\* and the hand is soft and hit_soft_17 is enabled, and False otherwise (the
\* dealer_up_card argument is never read)
C11_DealerHitsBelow17 ==
    \A hit_soft_17 \in BOOLEAN :
        DealerStrategy_should_hit(hit_soft_17, player_hands[1])
            <=> DefaultHits(player_hands[1], 17, hit_soft_17)

\* the dealer stands on a soft 17 without hit_soft_17 and hits it with the flag
C11_Witness ==
    /\ sim = "PlayerStrategy"
    /\ RanksOf(player_hands[1]) = <<"Ace", "6">>
    /\ DealerStrategy_should_hit(TRUE, player_hands[1])
    /\ ~DealerStrategy_should_hit(FALSE, player_hands[1])

\* C12: with an up card supplied and an entry of the override table for (hand
\* descriptor, up-card value), PlayerStrategy.should_hit returns the entry's
\* boolean, also against the default rule; the up-card value is the nominal one
\* (faces 10, Ace 11)
C12_OverrideDecides ==
    \A threshold \in Thresholds :
        LET strategy == [player_strategy EXCEPT !.stand_threshold = threshold]
            hand == player_hands[1]
            up_card == get_dealer_up_card(dealer_hand)
        IN  OverrideApplies(hand, up_card, strategy.hit_rules) =>
                PlayerStrategy_should_hit(strategy, hand, up_card)
                    = strategy.hit_rules[RuleKey(hand, up_card)]

\* hard 16 against a King with the rule (16, 10): False: the player stands,
\* where the threshold 17 alone says hit
C12_Witness ==
    /\ sim = "PlayerStrategy"
    /\ RanksOf(player_hands[1]) = <<"King", "6">>
    /\ RanksOf(dealer_hand) = <<"King">>
    /\ <<"hard", 16, 10>> \in DOMAIN config.player_hit_rules
    /\ ~config.player_hit_rules[<<"hard", 16, 10>>]
    /\ ~PlayerStrategy_should_hit(player_strategy, player_hands[1],
                                  get_dealer_up_card(dealer_hand))

\* C13: the override keys of hard and soft totals are distinct: a rule keyed on
\* the integer total n never decides a soft hand of value n, a rule keyed on
\* "soft n" never decides a hard hand of value n, and the key looked up is the
\* soft one iff hand.is_soft()
C13_HardAndSoftKeysDistinct ==
    \A threshold \in Thresholds :
        LET strategy == [player_strategy EXCEPT !.stand_threshold = threshold]
            hand == player_hands[1]
            up_card == get_dealer_up_card(dealer_hand)
            value == BestTotal(hand)
            up_value == RankValue(up_card.rank, 11)
            rules == strategy.hit_rules
            hits == PlayerStrategy_should_hit(strategy, hand, up_card)
            default == DefaultHits(hand, threshold, strategy.hit_soft_17)
        IN  up_card # None =>
              /\ (is_soft(hand) /\ <<"soft", value, up_value>> \notin DOMAIN rules)
                    => hits = default
              /\ (~is_soft(hand) /\ <<"hard", value, up_value>> \notin DOMAIN rules)
                    => hits = default
              /\ (is_soft(hand) /\ <<"soft", value, up_value>> \in DOMAIN rules)
                    => hits = rules[<<"soft", value, up_value>>]
              /\ (~is_soft(hand) /\ <<"hard", value, up_value>> \in DOMAIN rules)
                    => hits = rules[<<"hard", value, up_value>>]

\* soft 17 against a King with the rule (17, 10): True for the hard total only:
\* the player stands
C13_Witness ==
    /\ sim = "PlayerStrategy"
    /\ RanksOf(player_hands[1]) = <<"Ace", "6">>
    /\ RanksOf(dealer_hand) = <<"King">>
    /\ <<"hard", 17, 10>> \in DOMAIN config.player_hit_rules
    /\ config.player_hit_rules[<<"hard", 17, 10>>]
    /\ <<"soft", 17, 10>> \notin DOMAIN config.player_hit_rules
    /\ ~config.player_hit_soft_17
    /\ ~PlayerStrategy_should_hit(player_strategy, player_hands[1],
                                  get_dealer_up_card(dealer_hand))

\* C14: when no override applies (no up card, empty table, or no entry for the
\* descriptor and the up-card value), PlayerStrategy.should_hit returns True iff
\* value < stand_threshold, or value = 17 and the hand is soft and hit_soft_17
\* is enabled
C14_DefaultRule ==
    \A threshold \in Thresholds :
        LET strategy == [player_strategy EXCEPT !.stand_threshold = threshold]
            hand == player_hands[1]
            up_card == get_dealer_up_card(dealer_hand)
        IN  /\ ~OverrideApplies(hand, up_card, strategy.hit_rules) =>
                  (PlayerStrategy_should_hit(strategy, hand, up_card)
                      <=> DefaultHits(hand, threshold, strategy.hit_soft_17))
            /\ PlayerStrategy_should_hit(strategy, hand, None)
                  <=> DefaultHits(hand, threshold, strategy.hit_soft_17)

\* no up card and a table with a rule for the hand's total: the soft 17 is hit
\* because hit_soft_17 is enabled, and the hard 16 rule is not looked up
C14_Witness ==
    /\ sim = "PlayerStrategy"
    /\ RanksOf(player_hands[1]) = <<"Ace", "6">>
    /\ dealer_hand.cards = <<>>
    /\ config.player_hit_rules # <<>>
    /\ config.player_hit_soft_17
    /\ PlayerStrategy_should_hit(player_strategy, player_hands[1],
                                 get_dealer_up_card(dealer_hand))


---------------------------------------------------------------------------
(* Properties of play_hand and update_statistics *)

\* play_hand returns in this step
PlayHandReturns == Len(returned') = Len(returned) + 1

\* the tuple play_hand returns in this step
Returned == returned'[Len(returned')]

\* the primary bet of a round decided by the final hands, for the bettor, who
\* backs the dealer's side
BettorOutcome(ph, dh) ==
    IF is_bust(ph) /\ is_bust(dh) THEN "push"
    ELSE IF is_bust(ph) THEN "win"
    ELSE IF is_bust(dh) THEN "loss"
    ELSE IF get_value(dh) > get_value(ph) THEN "win"
    ELSE IF get_value(ph) > get_value(dh) THEN "loss"
    ELSE "push"

\* results after one more round with outcome o is recorded in the three counts
CountedAs(o) ==
    /\ results'.player_wins = results.player_wins + (IF o = "win" THEN 1 ELSE 0)
    /\ results'.dealer_wins = results.dealer_wins + (IF o = "loss" THEN 1 ELSE 0)
    /\ results'.pushes = results.pushes + (IF o = "push" THEN 1 ELSE 0)

\* C15: when a round of BlackjackSimulator without an initial blackjack ends,
\* it is counted from the final hands: both bust is a push; the player alone
\* bust a bettor win, counted in player_wins; the dealer alone bust a bettor
\* loss, counted in dealer_wins; otherwise the higher dealer value is a bettor
\* win, the higher player value a bettor loss, and equal values a push.
C15_FinalComparisonBettorSemantics ==
    [][(/\ sim # "SidebetSimulator"
        /\ PlayHandReturns
        /\ ~is_blackjack(player_hand)
        /\ ~is_blackjack(dealer_hand))
       => CountedAs(BettorOutcome(player_hand, dealer_hand))]_vars

\* a round of BlackjackSimulator in which the player alone went bust has been
\* counted in player_wins
C15_Witness ==
    /\ sim = "BlackjackSimulator"
    /\ Len(returned) = 1
    /\ returned[1].player_value > 21
    /\ returned[1].dealer_value <= 21
    /\ results.player_wins = 1

\* what a result label of play_hand means for the bettor
ResultOutcome(result) ==
    IF result = "player_win" \/ result = "player_win_blackjack" THEN "win"
    ELSE IF result = "dealer_win" THEN "loss"
    ELSE "push"

\* the primary bet of a round between the hands ph and dh as play_hand leaves
\* them, for the bettor: two blackjacks push, the dealer's blackjack wins, the
\* player's loses, and the final comparison decides the rest
RoundOutcome(ph, dh) ==
    IF is_blackjack(ph) /\ is_blackjack(dh) THEN "push"
    ELSE IF is_blackjack(dh) THEN "win"
    ELSE IF is_blackjack(ph) THEN "loss"
    ELSE BettorOutcome(ph, dh)

\* C16: SidebetSimulator resolves the primary bet with the bettor semantics of
\* BlackjackSimulator: the label play_hand returns stands for a bettor win on
\* a dealer-side victory and for a bettor loss on a player-side victory, and
\* the round is counted so in player_wins, dealer_wins and pushes.
C16_SidebetSameBettorSemantics ==
    [][(sim = "SidebetSimulator" /\ PlayHandReturns)
       => /\ ResultOutcome(Returned.result) = RoundOutcome(player_hand, dealer_hand)
          /\ CountedAs(RoundOutcome(player_hand, dealer_hand))]_vars

\* the first two cards of a hand: the hand as dealt
InitialHand(hand) == [hand EXCEPT !.cards = SubSeq(@, 1, Min(2, Len(@)))]

\* what a bettor win on the dealer's blackjack pays, in Unit-ths of the wager:
\* blackjack_payout, times 1 - commission_pct/100 iff commission_on_blackjack
DealerBlackjackPay ==
    IF config.commission_on_blackjack
    THEN config.blackjack_payout * (100 - config.commission_pct)
    ELSE config.blackjack_payout * 100

\* C17: a round in which only the dealer's initial hand is a blackjack is a
\* bettor win, net_win_amount grows by blackjack_payout, reduced by the
\* commission iff commission_on_blackjack is set, and with
\* hit_against_blackjack off both hands still hold their two cards.
C17_DealerBlackjackPaysBettor ==
    [][(/\ PlayHandReturns
        /\ is_blackjack(dealer_hand)
        /\ ~is_blackjack(InitialHand(player_hand)))
       => /\ ResultOutcome(Returned.result) = "win"
          /\ CountedAs("win")
          /\ results'.net_win_amount = results.net_win_amount + DealerBlackjackPay
          /\ ~config.hit_against_blackjack
                => Len(player_hand.cards) = 2 /\ Len(dealer_hand.cards) = 2]_vars

\* C18: when only the dealer's initial hand is a blackjack and
\* hit_against_blackjack is set, play_hand returns with a player hand on which
\* player_strategy.should_hit is false, and the round is a bettor win paid as
\* a dealer blackjack whatever the player's total; when the flag is off the
\* player's hand still holds its two cards.
C18_HitAgainstBlackjack ==
    [][(/\ PlayHandReturns
        /\ is_blackjack(dealer_hand)
        /\ ~is_blackjack(InitialHand(player_hand)))
       => IF config.hit_against_blackjack
          THEN /\ ~PlayerStrategy_should_hit(player_strategy, player_hand,
                                             get_dealer_up_card(dealer_hand))
               /\ ResultOutcome(Returned.result) = "win"
               /\ CountedAs("win")
               /\ results'.net_win_amount = results.net_win_amount + DealerBlackjackPay
          ELSE Len(player_hand.cards) = 2]_vars

\* C19: a round in which the player's initial hand is a blackjack ends with
\* both hands at two cards; when the dealer's is a blackjack too play_hand
\* returns a push with the values (21, 21) and net_win_amount keeps its
\* value, otherwise the round is a bettor loss and net_win_amount falls by
\* the unit wager.
C19_PlayerBlackjackRounds ==
    [][(PlayHandReturns /\ is_blackjack(InitialHand(player_hand)))
       => /\ Len(player_hand.cards) = 2
          /\ Len(dealer_hand.cards) = 2
          /\ IF is_blackjack(dealer_hand)
             THEN /\ Returned = Return("push", 21, 21)
                  /\ results'.net_win_amount = results.net_win_amount
             ELSE /\ ResultOutcome(Returned.result) = "loss"
                  /\ results'.net_win_amount = results.net_win_amount - Unit]_vars

\* how many of the rounds so far carry the result label
Count(label) == Cardinality({i \in DOMAIN returned : returned[i].result = label})

\* C20: after any sequence of rounds net_win_amount is the number of bettor
\* wins without a blackjack times 1 - commission_pct/100, plus the number of
\* bettor wins on a dealer blackjack times blackjack_payout (less the
\* commission only if commission_on_blackjack), minus the number of bettor
\* losses; pushes add nothing.  Amounts are in Unit-ths of the wager.
C20_NetWinAmountClosedForm ==
    results.net_win_amount =
          Count("player_win") * ((100 - config.commission_pct) * 100)
        + Count("player_win_blackjack") * DealerBlackjackPay
        - Count("dealer_win") * Unit

\* three rounds, a plain win, a win on a 3:2 dealer blackjack free of the 5 per
\* cent commission, and a loss, net 0.95 + 1.5 - 1
C20_Witness ==
    /\ pc = "update_statistics"
    /\ Len(returned) = 3
    /\ Count("player_win") = 1
    /\ Count("player_win_blackjack") = 1
    /\ Count("dealer_win") = 1
    /\ config.commission_pct = DefaultCommissionPct
    /\ ~config.commission_on_blackjack
    /\ config.blackjack_payout > DefaultBlackjackPayout
    /\ results.net_win_amount = 9500 + 15000 - 10000

\* equality of two fractions
FracEq(a, b) == a.num * b.den = b.num * a.den

\* -net_win_amount / total_bets x 100
HouseEdgePercent == Frac((0 - results.net_win_amount) * 100, results.total_bets)

\* the house edges reported so far: results['house_edge'] and
\* current_stats['house_edge']
ReportedHouseEdges == {results.house_edge, current_stats.house_edge} \ {Absent}

\* C21: once rounds have been played every reported house edge is the
\* percentage -net_win_amount / total_bets x 100; with no commission, a 1:1
\* blackjack payout and bettor wins only it is -100.
C21_HouseEdgeIsPercentage ==
    results.total_bets > 0
    => /\ \A e \in ReportedHouseEdges : FracEq(e, HouseEdgePercent)
       /\ (/\ config.commission_pct = 0
           /\ config.blackjack_payout = DefaultBlackjackPayout
           /\ results.player_wins = results.total_bets)
          => \A e \in ReportedHouseEdges : FracEq(e, Frac((0 - 100) * Unit, 1))

\* the sum of the counts f holds under the keys
RECURSIVE SumOver(_, _)
SumOver(f, keys) ==
    IF keys = {} THEN 0
    ELSE LET k == CHOOSE x \in keys : TRUE
         IN  f[k] + SumOver(f, keys \ {k})

\* a final value as the matrices record it
Clamped(v) == IF v > 30 THEN 30 ELSE v

RECURSIVE MatrixOf(_)
MatrixOf(rounds) ==
    IF rounds = <<>> THEN EmptyBag
    ELSE MatrixOf(SubSeq(rounds, 1, Len(rounds) - 1))
         (+) SetToBag({<<Clamped(rounds[Len(rounds)].player_value),
                         Clamped(rounds[Len(rounds)].dealer_value)>>})

\* C26: every key of outcome_matrix and outcome_details has both totals at most
\* 30, and each round is recorded under its final values clamped to 30.
C26_MatrixKeysClamped ==
    /\ \A k \in BagToSet(results.outcome_matrix) : k[1] <= 30 /\ k[2] <= 30
    /\ \A k \in BagToSet(results.outcome_details) : k[1] <= 30 /\ k[2] <= 30
    /\ results.outcome_matrix = MatrixOf(returned)
    /\ \A k \in BagToSet(results.outcome_matrix) :
         CopiesIn(k, results.outcome_matrix)
           = SumOver([r \in Labels \ {"player_win_blackjack"} |->
                        CopiesIn(<<k[1], k[2], r>>, results.outcome_details)],
                     Labels \ {"player_win_blackjack"})

C26_Witness ==
    /\ Len(returned) = 2
    /\ returned[1] = Return("dealer_win", 31, 21)
    /\ returned[2] = Return("player_win", 20, 22)
    /\ CopiesIn(<<30, 21>>, results.outcome_matrix) = 1

RECURSIVE Replay(_)
\* the statistics of a simulator set up and fed the rounds in order
Replay(rounds) ==
    IF rounds = <<>> THEN NewResults
    ELSE update_statistics(Replay(SubSeq(rounds, 1, Len(rounds) - 1)), rounds[Len(rounds)])

RoundsWhere(P(_)) == Cardinality({i \in DOMAIN returned : P(returned[i])})

PlayerOver21(ret) == ret.player_value > 21

DealerOver21(ret) == ret.dealer_value > 21

\* C35: after any sequence of update_statistics calls, total_bets equals
\* player_wins + dealer_wins + pushes, the number of entries counted in
\* outcome_matrix and the number counted in outcome_details, and player_busts
\* and dealer_busts count the rounds whose reported value exceeds 21.
C35_CountsAgree ==
    /\ results.total_bets = results.player_wins + results.dealer_wins + results.pushes
    /\ results.total_bets = BagCardinality(results.outcome_matrix)
    /\ results.total_bets = BagCardinality(results.outcome_details)
    /\ results.total_bets = Len(returned)
    /\ results.player_busts = RoundsWhere(PlayerOver21)
    /\ results.dealer_busts = RoundsWhere(DealerOver21)

C35_Witness ==
    /\ Len(returned) = 3
    /\ returned[1] = Return("push", 31, 22)
    /\ returned[2] = Return("player_win_blackjack", 20, 21)
    /\ returned[3] = Return("dealer_win", 31, 21)
    /\ results.player_busts = 2
    /\ results.dealer_busts = 1

\* the label the final comparison of BlackjackSimulator gives two totals
LabelOfTotals(player_total, dealer_total) ==
    IF player_total > 21 /\ dealer_total > 21 THEN "push"
    ELSE IF player_total > 21 THEN "player_win"
    ELSE IF dealer_total > 21 THEN "dealer_win"
    ELSE IF player_total > dealer_total THEN "dealer_win"
    ELSE IF dealer_total > player_total THEN "player_win"
    ELSE "push"

---------------------------------------------------------------------------
(* Properties of the side bet *)

\* (sidebet_payouts - total_bets) / total_bets x 100
SidebetEdgePercent(res) ==
    Frac((res.sidebet_payouts - res.total_bets) * 100 * Unit, res.total_bets)

\* sidebet_payouts or sidebet_wins changes in this step
SidebetCollects ==
    \/ results'.sidebet_payouts # results.sidebet_payouts
    \/ results'.sidebet_wins # results.sidebet_wins

\* no round so far has ended in a push, the one ending in this step included
NoPushYet == \A i \in DOMAIN returned' : returned'[i].result # "push"

\* the side bet's edge after the round that ends in this step
EdgeAfterRound ==
    /\ results'.total_bets > 0
          => FracEq(results'.sidebet_edge, SidebetEdgePercent(results'))
    /\ NoPushYet
          => (/\ results'.sidebet_payouts = 0
              /\ FracEq(results'.sidebet_edge, Frac((0 - 100) * Unit, 1)))

\* C22: the side bet pays only on a push: sidebet_payouts and sidebet_wins
\* change only when a round ends in a push; after every round with
\* total_bets > 0 sidebet_edge is (sidebet_payouts - total_bets) / total_bets
\* x 100; and after rounds without any push sidebet_payouts is 0 and
\* sidebet_edge is -100.
C22_SidebetPaysOnlyOnPush ==
    [][(sim \in SidebetSimulators)
       => (/\ SidebetCollects => (PlayHandReturns /\ Returned.result = "push")
           /\ PlayHandReturns => EdgeAfterRound)]_vars

\* the total-mode category of a push: bust, blackjack, or the shared total
PushCategory(ret, ph, dh) ==
    IF is_bust(ph) /\ is_bust(dh) THEN "bust"
    ELSE IF is_blackjack(ph) /\ is_blackjack(dh) THEN "blackjack"
    ELSE IntKey(ret.player_value)

\* the card-count category of a push: the cards of both hands, 12+ above 11
CardCountCategory(ph, dh) ==
    IF Len(ph.cards) + Len(dh.cards) > 11 THEN "12+"
    ELSE IntKey(Len(ph.cards) + Len(dh.cards))

\* the key of sidebet_payouts the active mode selects for a push
ActiveKey(ret, ph, dh) ==
    IF config.sidebet_payout_mode = "total"
    THEN IF PushCategory(ret, ph, dh) = "bust" THEN "bust-bust"
         ELSE IF PushCategory(ret, ph, dh) = "blackjack" THEN "blackjack-blackjack"
         ELSE PushCategory(ret, ph, dh)
    ELSE CardCountCategory(ph, dh)

\* a SidebetSimulator round ends in a push in this step
SidebetPush ==
    /\ sim \in SidebetSimulators
    /\ PlayHandReturns
    /\ Returned.result = "push"

\* C23: on every push SidebetSimulator counts the push under its total
\* category and its card-count category, adds it to pushes_detail_matrix under
\* the pair of both, in either payout mode, and adds to sidebet_payouts the
\* multiplier the table lists for the category of the active mode.
C23_PushCountedAndPaid ==
    [][SidebetPush
       => LET cat == PushCategory(Returned, player_hand, dealer_hand)
              cc == CardCountCategory(player_hand, dealer_hand)
              key == ActiveKey(Returned, player_hand, dealer_hand)
          IN  /\ results'.pushes_by_value[cat] = results.pushes_by_value[cat] + 1
              /\ results'.pushes_by_card_count[cc] = results.pushes_by_card_count[cc] + 1
              /\ results'.pushes_detail_matrix =
                    results.pushes_detail_matrix (+) SetToBag({<<cat, cc>>})
              /\ key \in DOMAIN config.sidebet_payouts
                    => results'.sidebet_payouts =
                          results.sidebet_payouts + config.sidebet_payouts[key]]_vars

TotalCategories == {IntKey(v) : v \in 17..21} \cup {"bust", "blackjack"}

CardCategories == {IntKey(n) : n \in 4..11} \cup {"12+"}

\* the push counters of the side bet agree with one another
PushCountersAgree(res) ==
    /\ SumOver(res.pushes_by_value, DOMAIN res.pushes_by_value) = res.total_pushes
    /\ SumOver(res.pushes_by_card_count, DOMAIN res.pushes_by_card_count) = res.total_pushes
    /\ BagCardinality(res.pushes_detail_matrix) = res.total_pushes
    /\ res.total_pushes = res.pushes

C25_AbsentCategoryPaysOne ==
    [][(SidebetPush
        /\ ActiveKey(Returned, player_hand, dealer_hand) \notin DOMAIN config.sidebet_payouts)
       => results'.sidebet_payouts = results.sidebet_payouts + 1]_vars

---------------------------------------------------------------------------
(* Properties of the summary *)

\* no round has been aggregated: before setup(), or with no bet counted
NoRoundYet == Falsy(results) \/ results.total_bets = 0

\* C30: asked before any round has run, before setup() or after it,
\* get_results_summary and generate_summary_report return the no-data signal
\* and do not raise.
C30_SummaryBeforeAnyRound ==
    (last.op \in {"get_results_summary", "generate_summary_report"} /\ NoRoundYet)
        => (last.outcome.raises = "None" /\ last.outcome.returns = NoData)

---------------------------------------------------------------------------
(* Properties of the interactive simulators *)

\* the place of a phase in the round
PhaseOrder(phase) ==
    IF phase = "init" THEN 0
    ELSE IF phase = "player_turn" THEN 1
    ELSE IF phase = "dealer_turn" THEN 2
    ELSE 3

\* start_new_hand is called in this step
StartsNewHand == last'.op = "start_new_hand" /\ last' # last

\* the phase moves along init -> player_turn -> dealer_turn -> result, and
\* back to the start of a round only by start_new_hand
MovesForward ==
    \/ current_phase' = current_phase
    \/ StartsNewHand /\ current_phase' \in {"init", "player_turn"}
    \/ /\ ~StartsNewHand
       /\ current_phase # "result"
       /\ PhaseOrder(current_phase') > PhaseOrder(current_phase)

\* the hand is completed in this step on an immediate blackjack
CompletesOnBlackjack ==
    /\ PlayHandReturns
    /\ is_blackjack(player_hands[1]) \/ is_blackjack(dealer_hand)

\* C28: the interactive simulators change phase only along init ->
\* player_turn -> dealer_turn -> result -> init; an immediate blackjack of
\* either hand leads directly to result; result is left only through
\* start_new_hand; no call moves the phase backwards within a round.
C28_PhasesInOrder ==
    [][(sim \in InteractiveSimulators)
       => (/\ MovesForward
           /\ CompletesOnBlackjack => current_phase' = "result")]_vars

\* the statistics are updated in this step: a bet is counted or a hand is
\* entered in hand_history (hand_num is its length)
StatisticsUpdated == results'.total_bets # results.total_bets \/ hand_num' # hand_num

\* an update counts one bet and one hand and ends the round in "result", and
\* nothing is counted in "result" until start_new_hand begins the next round
OncePerRound ==
    /\ StatisticsUpdated
         => /\ results'.total_bets = results.total_bets + 1
            /\ hand_num' = hand_num + 1
            /\ current_phase \in {"player_turn", "dealer_turn"}
            /\ current_phase' = "result"
    /\ current_phase = "result"
         => /\ ~StatisticsUpdated
            /\ current_phase' # "result" => StartsNewHand

\* a guarded method is called in this step in a phase it does not allow
CalledInWrongPhase ==
    /\ AtRest
    /\ last' # last
    /\ last'.op \in {"deal_cards", "player_hit", "player_stand", "dealer_step", "complete_hand"}
    /\ current_phase \notin AllowedPhases(last'.op)

\* C29: between two start_new_hand calls the statistics are updated at most
\* once (one bet, one entry of hand_history), and a deal_cards, player_hit,
\* player_stand, dealer_step or complete_hand call in a phase that does not
\* allow it returns an error and leaves phase, hands, shoe and statistics as
\* they were.
C29_ResultOncePerRound ==
    [][(sim \in InteractiveSimulators)
       => (/\ OncePerRound
           /\ CalledInWrongPhase
                => /\ "returns" \in DOMAIN last'
                   /\ last'.returns = "error"
                   /\ UNCHANGED <<current_phase, player_hands, dealer_hand, shoe, results,
                                   current_stats, hand_num>>)]_vars

C29_Witness ==
    /\ sim = "InteractiveSimulator"
    /\ current_phase = "result"
    /\ results.total_bets = 1
    /\ last.op = "complete_hand"
    /\ "returns" \in DOMAIN last
    /\ last.returns = "error"

---------------------------------------------------------------------------
(* Properties of the round loop and of play_hand *)

\* C36: the statistics update of every round completes without raising, in
\* SidebetSimulator.run_simulation and InteractiveSidebetSimulator.complete_hand
\* as in BlackjackSimulator, and run_simulation returns with one bet counted
\* for every player hand of every round.
C36_EveryUpdateCompletes ==
    /\ pc # "TypeError"
    /\ (pc = "done" /\ sim \in {"BlackjackSimulator", "SidebetSimulator"})
         => results.total_bets =
              config.num_hands * (IF sim = "SidebetSimulator" THEN 1 ELSE config.num_players)

\* the k-th draw (1-based) of deal_initial_cards has just added card c to the
\* hand h, which held the cards before
Received(before, h, c, k) ==
    /\ h.cards = Append(before.cards, c)
    /\ ~last'.shuffled => shoe.cards = shoe'.cards (+) SetToBag({c})
    /\ k = deal_pos'

\* every hand but player i's (0: the dealer's) is as it was
OthersUntouched(i) ==
    /\ \A j \in DOMAIN player_hands : j # i => player_hands'[j] = player_hands[j]
    /\ i # 0 => dealer_hand'.cards = dealer_hand.cards

\* C34: deal_initial_cards draws exactly 2 x (P + 1) cards for P player hands in
\* a fixed order: each player's first card in seat order, the dealer's up card,
\* each player's second card, the dealer's hole card. Every hand ends with
\* exactly two cards, and the card get_dealer_up_card returns is the (P+1)-th
\* card drawn.
C34_DealOrder ==
    [][(deal_pos' = deal_pos + 1)
       => LET P == Len(player_hands)
          IN  /\ deal_pos < 2 * (P + 1)
              /\ Len(player_hands') = P
              /\ \E c \in {Deck_build[j] : j \in DOMAIN Deck_build} :
                    /\ \A i \in 1..P :
                         /\ deal_pos = i - 1
                              => /\ Received(player_hands[i], player_hands'[i], c, i)
                                 /\ Len(player_hands'[i].cards) = 1
                                 /\ OthersUntouched(i)
                         /\ deal_pos = P + i
                              => /\ Received(player_hands[i], player_hands'[i], c, P + 1 + i)
                                 /\ Len(player_hands'[i].cards) = 2
                                 /\ OthersUntouched(i)
                    /\ deal_pos = P
                         => /\ Received(dealer_hand, dealer_hand', c, P + 1)
                            /\ get_dealer_up_card(dealer_hand') = c
                            /\ OthersUntouched(0)
                    /\ deal_pos = 2 * P + 1
                         => /\ Received(dealer_hand, dealer_hand', c, 2 * (P + 1))
                            /\ get_dealer_up_card(dealer_hand') = dealer_hand.cards[1]
                            /\ OthersUntouched(0)
              /\ (pc' # "deal") = (deal_pos' = 2 * (P + 1))
              /\ deal_pos' = 2 * (P + 1)
                   => /\ \A i \in 1..P : Len(player_hands'[i].cards) = 2
                      /\ Len(dealer_hand'.cards) = 2]_vars

C34_Witness ==
    /\ sim = "BlackjackSimulator"
    /\ pc = "play_hand"
    /\ Len(player_hands) = 2
    /\ deal_pos = 6
    /\ \A i \in 1..2 : Len(player_hands[i].cards) = 2
    /\ Len(dealer_hand.cards) = 2
    /\ get_dealer_up_card(dealer_hand) = dealer_hand.cards[1]
    /\ get_dealer_up_card(dealer_hand) # dealer_hand.cards[2]
    /\ player_hands[1].cards[1] # get_dealer_up_card(dealer_hand)

\* hand h is the hand before with one card of the shoe appended
DrewOne(before, h) ==
    /\ Len(h.cards) = Len(before.cards) + 1
    /\ SubSeq(h.cards, 1, Len(before.cards)) = before.cards
    /\ last'.op = "draw"

InPlayHand == pc \in {"play_hand", "player_loop", "dealer_loop"}

\* play_hand has returned from a round that no blackjack ended
ReturnedWithoutBlackjack ==
    /\ pc = "returned"
    /\ ~is_blackjack(player_hand)
    /\ ~is_blackjack(dealer_hand)

\* C37: play_hand always terminates: on a shoe of num_decks >= 1, under any
\* soft-17 flags and any override table, rules that hit above 21 included, the
\* player's and the dealer's draw loops each stop after finitely many draws
\* (play_hand returns, or a draw from the exhausted shoe raises), and the
\* dealer's final value in a round without a blackjack lies in 17..26.
C37_PlayHandTerminates ==
    /\ InPlayHand ~> (pc \in {"returned", "IndexError"})
    /\ [](ReturnedWithoutBlackjack
            => /\ get_value(dealer_hand) \in 17..26
               /\ returned[Len(returned)].dealer_value = get_value(dealer_hand))

C37_Witness ==
    /\ ReturnedWithoutBlackjack
    /\ get_value(player_hand) > MaxRuleTotal
    /\ HardKey(MaxRuleTotal, Card_get_value(get_dealer_up_card(dealer_hand)))
         \in DOMAIN config.player_hit_rules
    /\ Len(player_hand.cards) >= 4
    /\ get_value(dealer_hand) = 26

---------------------------------------------------------------------------
(* Properties of the turns of interactive play *)

\* the cards of every player hand are as they were
PlayerCardsKept ==
    /\ DOMAIN player_hands' = DOMAIN player_hands
    /\ \A i \in DOMAIN player_hands : player_hands'[i].cards = player_hands[i].cards

\* C33: in interactive play, once player_stand has been called or the phase has
\* otherwise left player_turn, no further card is added to the player's hand in
\* that round, and every dealer card is drawn after the player's last card: a
\* player hand does not grow once the dealer holds a third card.
C33_NoPlayerCardAfterStand ==
    [][(/\ sim \in InteractiveSimulators
        /\ current_phase' # "init"
        /\ current_phase = "dealer_turn" \/ Len(dealer_hand.cards) > 2)
       => PlayerCardsKept]_vars

---------------------------------------------------------------------------
(* Properties of setup *)

\* the deck and player counts of the configuration are positive
ValidCounts == config.num_decks >= 1 /\ config.num_players >= 1

\* C31: configuration errors are rejected at setup, before any card is drawn or
\* any round is played: under a configuration with num_decks <= 0 or
\* num_players <= 0 setup fails, so no round is dealt and Shoe.draw is never
\* called.
C31_ConfigErrorsRejectedAtSetup ==
    (last.op = "draw" \/ pc \in {"deal", "IndexError"}) => ValidCounts
===========================================================================
